---- MODULE Spec2Model ----
(***************************************************************************)
(* Model of neutron_fwaas/db/firewall/v2/firewall_db_v2.py: the rule,      *)
(* policy and group tables of the firewall service, the policy ordering    *)
(* engine, the sharing checks and the default firewall group bootstrap.    *)
(*                                                                         *)
(* A handler of Firewall_db_mixin_v2 is an operator from the database (a   *)
(* record of the six tables) and the request to an outcome                 *)
(*   [db |-> the committed tables after the call,                          *)
(*    result |-> "ok" or the name of the exception raised,                 *)
(*    ret |-> the value returned].                                         *)
(* An action applies one handler to the tables and records the call in     *)
(* the variable last.                                                      *)
(***************************************************************************)
EXTENDS Integers, Sequences, FiniteSets, TLC

VARIABLES
    firewall_rules_v2,                    \* FirewallRuleV2 rows, by id
    firewall_policies_v2,                 \* FirewallPolicy rows, by id
    firewall_policy_rule_associations_v2, \* FirewallPolicyRuleAssociation rows
    firewall_groups_v2,                   \* FirewallGroup rows, by id
    firewall_group_port_associations_v2,  \* FirewallGroupPortAssociation rows
    default_firewall_groups,              \* DefaultFirewallGroup rows
    calls,                                \* the in-flight bootstrap of each caller
    last                                  \* the last call made and its outcome

vars == <<firewall_rules_v2, firewall_policies_v2,
          firewall_policy_rule_associations_v2, firewall_groups_v2,
          firewall_group_port_associations_v2, default_firewall_groups,
          calls, last>>

tables == <<firewall_rules_v2, firewall_policies_v2,
            firewall_policy_rule_associations_v2, firewall_groups_v2,
            firewall_group_port_associations_v2, default_firewall_groups>>

----------------------------------------------------------------------------
(* Values *)

\* Python's None in a string column or a string field of a request.
None == "None"
\* Python's None in an id field (ids are uuids, modelled as positive numbers).
NoId == 0
\* Python's None in an integer column (a port bound, the ip version).
NoInt == 0
\* Python's None, or the empty text, as a port range text.  A port range
\* text "a" is the tuple <<a>>, a text "a:b" the tuple <<a, b>>.
NoRange == <<>>
\* fwr_db=None, the default of the validators' second parameter.
NoRow == [id |-> 0]

\* const.DEFAULT_FWG, const.DEFAULT_FWP_INGRESS, const.DEFAULT_FWP_EGRESS
DEFAULT_FWG == "default"
DEFAULT_FWP_INGRESS == "default ingress"
DEFAULT_FWP_EGRESS == "default egress"

\* nl_constants
PROTO_NAME_TCP == "tcp"
PROTO_NAME_UDP == "udp"
IP_VERSION_4 == 4
IP_VERSION_6 == 6
INACTIVE == "INACTIVE"
PENDING_CREATE == "PENDING_CREATE"
PENDING_DELETE == "PENDING_DELETE"
CREATED == "CREATED"
FWAAS_ALLOW == "allow"
FWAAS_DENY == "deny"

\* ordering_list('position', count_from=1)
count_from == 1

\* dict.get(key, default) and key in dict
Get(d, k, default) == IF k \in DOMAIN d THEN d[k] ELSE default
Has(d, k) == k \in DOMAIN d

\* model_base update(): the columns named by the request take its values
RowUpdate(row, d) == [k \in DOMAIN row |-> IF k \in DOMAIN d THEN d[k] ELSE row[k]]

\* a dict without the keys ks (del d[k])
Without(d, ks) == [k \in (DOMAIN d) \ ks |-> d[k]]

\* a table without the rows ids
Drop(t, ids) == [i \in (DOMAIN t) \ ids |-> t[i]]

\* the value v under a name of its own: F's parameter
Let(v, F(_)) == F(v)

Min(S) == CHOOSE n \in S : \A m \in S : n <= m

\* uuidutils.generate_uuid(): an id no row of the table and no open session
\* holds
generate_uuid(used) == Min((1..(Cardinality(used) + 1)) \ used)

Range(s) == {s[i] : i \in DOMAIN s}

\* the database: the six tables, and the ids held by rows that other
\* sessions have not committed yet (no new row may take them)
DB == [fwr |-> firewall_rules_v2,
       fwp |-> firewall_policies_v2,
       fwpra |-> firewall_policy_rule_associations_v2,
       fwg |-> firewall_groups_v2,
       fwgpa |-> firewall_group_port_associations_v2,
       dfwg |-> default_firewall_groups,
       held |-> [fwr |-> UNION {DOMAIN calls[c].session.fwr : c \in DOMAIN calls},
                 fwp |-> UNION {DOMAIN calls[c].session.fwp : c \in DOMAIN calls},
                 fwg |-> UNION {DOMAIN calls[c].session.fwg : c \in DOMAIN calls}]]

\* what a handler that returns nothing, or raises, hands back
NoRet == <<>>

Ok(db, ret) == [db |-> db, result |-> "ok", ret |-> ret]
\* an exception leaves the transaction: the tables are as they were at db
Raise(db, e) == [db |-> db, result |-> e, ret |-> NoRet]

----------------------------------------------------------------------------
(* Lookups *)

_get_firewall_group(db, id) ==
    IF id \in DOMAIN db.fwg THEN Ok(db, db.fwg[id])
    ELSE Raise(db, "FirewallGroupNotFound")

_get_firewall_policy(db, id) ==
    IF id \in DOMAIN db.fwp THEN Ok(db, db.fwp[id])
    ELSE Raise(db, "FirewallPolicyNotFound")

_get_firewall_rule(db, id) ==
    IF id \in DOMAIN db.fwr THEN Ok(db, db.fwr[id])
    ELSE Raise(db, "FirewallRuleNotFound")

----------------------------------------------------------------------------
(* Rule repository *)

\* netaddr.IPNetwork(address).version of the addresses the requests use
IPNetwork_version(address) ==
    CASE address = "10.0.0.0/24" -> 4
      [] address = "192.168.1.5" -> 4
      [] address = "2001:db8::/32" -> 6
      [] address = "fe80::1" -> 6

_validate_fwr_protocol_parameters(fwr, fwr_db) ==
    LET given == Get(fwr, "protocol", None)
        protocol == IF fwr_db # NoRow /\ given \in {None, ""}
                    THEN fwr_db.protocol ELSE given
    IN  IF /\ protocol \notin {PROTO_NAME_TCP, PROTO_NAME_UDP}
           /\ \/ Get(fwr, "source_port", NoRange) # NoRange
              \/ Get(fwr, "destination_port", NoRange) # NoRange
        THEN "FirewallRuleInvalidICMPParameter"
        ELSE "ok"

_validate_fwr_src_dst_ip_version(fwr, fwr_db) ==
    LET src == Get(fwr, "source_ip_address", None)
        dst == Get(fwr, "destination_ip_address", None)
        src_version == IF src \notin {None, ""} THEN IPNetwork_version(src) ELSE NoInt
        dst_version == IF dst \notin {None, ""} THEN IPNetwork_version(dst) ELSE NoInt
        given == Get(fwr, "ip_version", NoInt)
        rule_ip_version == IF given = NoInt /\ fwr_db # NoRow
                           THEN fwr_db.ip_version ELSE given
    IN  IF \/ src_version # NoInt /\ src_version # rule_ip_version
           \/ dst_version # NoInt /\ dst_version # rule_ip_version
        THEN "FirewallIpAddressConflict"
        ELSE "ok"

_validate_fwr_port_range(min_port, max_port) ==
    IF min_port > max_port THEN "FirewallRuleInvalidPortValue" ELSE "ok"

\* [result, min, max] of a port range text
_get_min_max_ports_from_range(port_range) ==
    IF port_range = NoRange
    THEN [result |-> "ok", min |-> NoInt, max |-> NoInt]
    ELSE LET min_port == port_range[1]
             max_port == IF Len(port_range) > 1 THEN port_range[2] ELSE min_port
         IN  [result |-> _validate_fwr_port_range(min_port, max_port),
              min |-> min_port, max |-> max_port]

\* the text of a stored port range; None is NoRange
_get_port_range_from_min_max_ports(min_port, max_port) ==
    IF min_port = NoInt THEN NoRange
    ELSE IF min_port = max_port THEN <<min_port>>
    ELSE <<min_port, max_port>>

_make_firewall_rule_dict(firewall_rule) ==
    [id |-> firewall_rule.id,
     tenant_id |-> firewall_rule.tenant_id,
     name |-> firewall_rule.name,
     protocol |-> firewall_rule.protocol,
     ip_version |-> firewall_rule.ip_version,
     source_ip_address |-> firewall_rule.source_ip_address,
     destination_ip_address |-> firewall_rule.destination_ip_address,
     source_port |-> _get_port_range_from_min_max_ports(
                         firewall_rule.source_port_range_min,
                         firewall_rule.source_port_range_max),
     destination_port |-> _get_port_range_from_min_max_ports(
                         firewall_rule.destination_port_range_min,
                         firewall_rule.destination_port_range_max),
     action |-> firewall_rule.action,
     enabled |-> firewall_rule.enabled,
     shared |-> firewall_rule.shared]

\* _get_policies_with_rule cut to one policy
_get_policies_with_rule_first(db, fwrid) ==
    LET fwps == {a.firewall_policy_id :
                    a \in {b \in db.fwpra : b.firewall_rule_id = fwrid}}
    IN  IF fwps = {} THEN {} ELSE {Min(fwps)}

\* the ids of the policies that hold the rule
_get_policies_with_rule(db, fwrid) ==
    {a.firewall_policy_id : a \in {b \in db.fwpra : b.firewall_rule_id = fwrid}}

\* the ids of the rules a policy holds
_get_rules_in_policy(db, fwpid) ==
    {a.firewall_rule_id : a \in {b \in db.fwpra : b.firewall_policy_id = fwpid}}

create_firewall_rule(db, fwr) ==
    LET src == _get_min_max_ports_from_range(fwr.source_port)
        dst == _get_min_max_ports_from_range(fwr.destination_port)
        id == generate_uuid(DOMAIN db.fwr \cup db.held.fwr)
        fwr_db == [id |-> id,
                   tenant_id |-> fwr.tenant_id,
                   name |-> fwr.name,
                   protocol |-> fwr.protocol,
                   ip_version |-> fwr.ip_version,
                   source_ip_address |-> fwr.source_ip_address,
                   destination_ip_address |-> fwr.destination_ip_address,
                   source_port_range_min |-> src.min,
                   source_port_range_max |-> src.max,
                   destination_port_range_min |-> dst.min,
                   destination_port_range_max |-> dst.max,
                   action |-> fwr.action,
                   enabled |-> fwr.enabled,
                   shared |-> fwr.shared]
    IN  IF _validate_fwr_protocol_parameters(fwr, NoRow) # "ok"
        THEN Raise(db, _validate_fwr_protocol_parameters(fwr, NoRow))
        ELSE IF _validate_fwr_src_dst_ip_version(fwr, NoRow) # "ok"
        THEN Raise(db, _validate_fwr_src_dst_ip_version(fwr, NoRow))
        ELSE IF /\ fwr.protocol \in {None, ""}
                /\ (fwr.source_port # NoRange \/ fwr.destination_port # NoRange)
        THEN Raise(db, "FirewallRuleWithPortWithoutProtocolInvalid")
        ELSE IF src.result # "ok" THEN Raise(db, src.result)
        ELSE IF dst.result # "ok" THEN Raise(db, dst.result)
        ELSE Ok([db EXCEPT !.fwr = db.fwr @@ (id :> fwr_db)],
                _make_firewall_rule_dict(fwr_db))

\* the request of update_firewall_rule once its port range texts are
\* replaced by the bounds of the columns
_ports_to_columns(fwr, src, dst) ==
    LET rest == Without(fwr, {"source_port", "destination_port"})
        s == IF Has(fwr, "source_port")
             THEN [source_port_range_min |-> src.min,
                   source_port_range_max |-> src.max]
             ELSE <<>>
        d == IF Has(fwr, "destination_port")
             THEN [destination_port_range_min |-> dst.min,
                   destination_port_range_max |-> dst.max]
             ELSE <<>>
    IN  [k \in DOMAIN rest \cup DOMAIN s \cup DOMAIN d |->
            IF k \in DOMAIN rest THEN rest[k]
            ELSE IF k \in DOMAIN s THEN s[k] ELSE d[k]]

\* the check of update_firewall_rule left out
_port_without_protocol_unchecked(fwr, fwr_db) == FALSE

\* the check inside the transaction of update_firewall_rule, on the request
\* with its port ranges as columns: no protocol, in the request or else in
\* the row, and a source or destination port
_port_without_protocol(fwr, fwr_db) ==
    LET protocol == Get(fwr, "protocol", fwr_db.protocol)
        sport == Get(fwr, "source_port_range_min", fwr_db.source_port_range_min)
        dport == Get(fwr, "destination_port_range_min",
                     fwr_db.destination_port_range_min)
    IN  protocol \in {None, ""} /\ (sport # NoInt \/ dport # NoInt)

update_firewall_rule(db, id, fwr) ==
    IF id \notin DOMAIN db.fwr THEN Raise(db, "FirewallRuleNotFound")
    ELSE
    LET fwr_db == db.fwr[id]
        src == _get_min_max_ports_from_range(Get(fwr, "source_port", NoRange))
        dst == _get_min_max_ports_from_range(Get(fwr, "destination_port", NoRange))
        cols == _ports_to_columns(fwr, src, dst)
        updated == RowUpdate(fwr_db, cols)
        fwp_ids == _get_policies_with_rule(db, id)
    IN  IF _validate_fwr_protocol_parameters(fwr, fwr_db) # "ok"
        THEN Raise(db, _validate_fwr_protocol_parameters(fwr, fwr_db))
        ELSE IF _validate_fwr_src_dst_ip_version(fwr, fwr_db) # "ok"
        THEN Raise(db, _validate_fwr_src_dst_ip_version(fwr, fwr_db))
        ELSE IF src.result # "ok" THEN Raise(db, src.result)
        ELSE IF dst.result # "ok" THEN Raise(db, dst.result)
        ELSE IF _port_without_protocol(cols, fwr_db)
        THEN Raise(db, "FirewallRuleWithPortWithoutProtocolInvalid")
        ELSE Ok([db EXCEPT
                   !.fwr = [db.fwr EXCEPT ![id] = updated],
                   \* if the rule on a policy, fix audited flag
                   !.fwp = [p \in DOMAIN db.fwp |->
                              IF p \in fwp_ids
                              THEN [db.fwp[p] EXCEPT !.audited = FALSE]
                              ELSE db.fwp[p]]],
                _make_firewall_rule_dict(updated))

\* delete_firewall_rule that does not look for the policies of the rule
delete_firewall_rule_unchecked(db, id) == IF id \notin DOMAIN db.fwr THEN Raise(db, "FirewallRuleNotFound") ELSE Ok([db EXCEPT !.fwr = Drop(db.fwr, {id})], NoRet)

delete_firewall_rule(db, id) ==
    IF id \notin DOMAIN db.fwr THEN Raise(db, "FirewallRuleNotFound")
    ELSE IF _get_policies_with_rule(db, id) # {}
    THEN Raise(db, "FirewallRuleInUse")
    ELSE Ok([db EXCEPT !.fwr = Drop(db.fwr, {id})], NoRet)

----------------------------------------------------------------------------
(* Policy ordering engine *)

\* order_by='FirewallPolicyRuleAssociation.position': the rows by ascending
\* position (rows of equal position in an order the database chooses)
RECURSIVE OrderByPosition(_)
OrderByPosition(rows) ==
    IF rows = {} THEN <<>>
    ELSE LET first == CHOOSE a \in rows : \A b \in rows : a.position <= b.position
         IN  <<first>> \o OrderByPosition(rows \ {first})

\* fwp_db.rule_associations as loaded from the table: the ids of the rules
\* of the policy's rows, in the order of the relationship
rule_associations(db, firewall_policy_id) ==
    LET rows == OrderByPosition(
                    {a \in db.fwpra : a.firewall_policy_id = firewall_policy_id})
    IN  [i \in DOMAIN rows |-> rows[i].firewall_rule_id]

\* reorder with the rows numbered from 0
reorder_from_zero(firewall_policy_id, list) ==
    {[firewall_policy_id |-> firewall_policy_id,
      firewall_rule_id |-> list[i],
      position |-> i - 1] : i \in DOMAIN list}

\* OrderingList.reorder(): the rows of an in-memory list of associations,
\* each at position count_from + its index in the list
reorder(firewall_policy_id, list) ==
    {[firewall_policy_id |-> firewall_policy_id,
      firewall_rule_id |-> list[i],
      position |-> count_from + (i - 1)] : i \in DOMAIN list}

\* list.insert(index, x), index >= 0
ListInsert(list, index, x) ==
    IF index >= Len(list) THEN Append(list, x)
    ELSE SubSeq(list, 1, index) \o <<x>> \o SubSeq(list, index + 1, Len(list))

\* list.remove(x)
ListRemove(list, x) ==
    LET i == Min({j \in DOMAIN list : list[j] = x})
    IN  SubSeq(list, 1, i - 1) \o SubSeq(list, i + 1, Len(list))

\* the policy's rows replaced by those of the in-memory list
WithAssociations(db, firewall_policy_id, rows) ==
    [db EXCEPT !.fwpra =
        {a \in db.fwpra : a.firewall_policy_id # firewall_policy_id} \cup rows]

_make_firewall_policy_dict(firewall_policy, associations) ==
    [id |-> firewall_policy.id,
     tenant_id |-> firewall_policy.tenant_id,
     name |-> firewall_policy.name,
     audited |-> firewall_policy.audited,
     firewall_rules |-> associations,
     shared |-> firewall_policy.shared]

_check_firewall_rule_conflict(fwr_db, fwp_db) ==
    IF ~fwr_db.shared /\ fwr_db.tenant_id # fwp_db.tenant_id
    THEN "FirewallRuleConflict" ELSE "ok"

\* _process_rule_for_policy with the audited flag left as it is
_process_rule_for_policy_keeps_audited(db, firewall_policy_id, firewall_rule_id, position) ==
    LET loaded == rule_associations(db, firewall_policy_id)
        list == IF position # 0
                THEN ListInsert(loaded, position - 1, firewall_rule_id)
                ELSE ListRemove(loaded, firewall_rule_id)
        db1 == WithAssociations(db, firewall_policy_id,
                                reorder(firewall_policy_id, list))
    IN  Ok(db1, _make_firewall_policy_dict(db1.fwp[firewall_policy_id], list))

\* position = 0 (no position) removes association_db, the row of
\* firewall_rule_id; any other position inserts a row for firewall_rule_id.
\* The list is loaded once the policy row is locked: a row of the rule that
\* is there by then has the primary key of the row to insert, and a row to
\* remove that is gone by then is not in the list.
_process_rule_for_policy(db, firewall_policy_id, firewall_rule_id, position) ==
    LET loaded == rule_associations(db, firewall_policy_id)
        list == IF position # 0
                THEN ListInsert(loaded, position - 1, firewall_rule_id)
                ELSE ListRemove(loaded, firewall_rule_id)
        db1 == WithAssociations(db, firewall_policy_id,
                                reorder(firewall_policy_id, list))
        db2 == [db1 EXCEPT !.fwp[firewall_policy_id].audited = FALSE]
    IN  IF position # 0 /\ firewall_rule_id \in Range(loaded)
        THEN Raise(db, "DBDuplicateEntry")
        ELSE IF position = 0 /\ firewall_rule_id \notin Range(loaded)
        THEN Raise(db, "ValueError")
        ELSE Ok(db2, _make_firewall_policy_dict(db2.fwp[firewall_policy_id], list))

_get_policy_rule_association_query(db, firewall_policy_id, firewall_rule_id) ==
    {a \in db.fwpra : /\ a.firewall_policy_id = firewall_policy_id
                      /\ a.firewall_rule_id = firewall_rule_id}

\* _ensure_rule_not_already_associated with the check left out
_ensure_rule_not_already_associated_unchecked(db, firewall_policy_id, firewall_rule_id) ==
    "ok"

_ensure_rule_not_already_associated(db, firewall_policy_id, firewall_rule_id) ==
    IF _get_policy_rule_association_query(
           db, firewall_policy_id, firewall_rule_id) # {}
    THEN "FirewallRuleAlreadyAssociated" ELSE "ok"

\* _get_policy_rule_association that finds a row whatever it looks for
_get_policy_rule_association_found(db, firewall_policy_id, firewall_rule_id) ==
    "ok"

\* what _get_policy_rule_association raises when the query has no row
_get_policy_rule_association(db, firewall_policy_id, firewall_rule_id) ==
    IF _get_policy_rule_association_query(
           db, firewall_policy_id, firewall_rule_id) = {}
    THEN "FirewallRuleNotAssociatedWithPolicy" ELSE "ok"

\* validators.validate_uuid: the ids of rows are uuids, NoId is not
validate_uuid(id) == id # NoId

_validate_insert_remove_rule_request(rule_info) ==
    IF DOMAIN rule_info = {} \/ ~Has(rule_info, "firewall_rule_id")
    THEN "FirewallRuleInfoMissing"
    ELSE IF ~validate_uuid(rule_info.firewall_rule_id)
    THEN "FirewallRuleNotFound"
    ELSE "ok"

\* the reference rule insert_rule resolves, and whether it inserts before it
RefRule(rule_info) ==
    LET before == Get(rule_info, "insert_before", NoId)
    IN  IF before = NoId /\ Has(rule_info, "insert_after")
        THEN [ref |-> rule_info.insert_after, insert_before |-> FALSE]
        ELSE [ref |-> before, insert_before |-> TRUE]

\* InsertPosition with the row placed before the reference rule whatever
\* the request asks
InsertPosition_always_before(ref_position, has_ref, insert_before) ==
    IF has_ref THEN ref_position ELSE 1

\* InsertPosition with insert_after honoured when no reference rule is named
InsertPosition_after_top(ref_position, has_ref, insert_before) ==
    IF has_ref
    THEN IF insert_before THEN ref_position ELSE ref_position + 1
    ELSE IF insert_before THEN 1 ELSE 2

\* InsertPosition with the row placed second when no reference rule is
\* named
InsertPosition_second(ref_position, has_ref, insert_before) ==
    IF has_ref
    THEN IF insert_before THEN ref_position ELSE ref_position + 1
    ELSE 2

\* the position insert_rule asks for, given the position of the
\* reference rule's row (0 when the request names no reference rule)
InsertPosition(ref_position, has_ref, insert_before) ==
    IF has_ref
    THEN IF insert_before THEN ref_position ELSE ref_position + 1
    ELSE 1

\* insert_rule up to its call of _process_rule_for_policy: the checks, and
\* the position it reads from the row of the reference rule
_insert_rule_position(db, id, rule_info) ==
    IF _validate_insert_remove_rule_request(rule_info) # "ok"
    THEN Raise(db, _validate_insert_remove_rule_request(rule_info))
    ELSE
    LET firewall_rule_id == rule_info.firewall_rule_id
        r == RefRule(rule_info)
        has_ref == r.ref # NoId
        fwpra_db == _get_policy_rule_association_query(db, id, r.ref)
        ref_position == IF fwpra_db = {} THEN 0
                        ELSE (CHOOSE a \in fwpra_db : TRUE).position
    IN  IF _ensure_rule_not_already_associated(db, id, firewall_rule_id) # "ok"
        THEN Raise(db, "FirewallRuleAlreadyAssociated")
        ELSE IF firewall_rule_id \notin DOMAIN db.fwr
        THEN Raise(db, "FirewallRuleNotFound")
        ELSE IF id \notin DOMAIN db.fwp
        THEN Raise(db, "FirewallPolicyNotFound")
        ELSE IF _check_firewall_rule_conflict(
                    db.fwr[firewall_rule_id], db.fwp[id]) # "ok"
        THEN Raise(db, "FirewallRuleConflict")
        ELSE IF has_ref /\ _get_policy_rule_association(db, id, r.ref) # "ok"
        THEN Raise(db, "FirewallRuleNotAssociatedWithPolicy")
        ELSE Ok(db, [position |->
                        InsertPosition(ref_position, has_ref, r.insert_before)])

insert_rule(db, id, rule_info) ==
    Let(_insert_rule_position(db, id, rule_info), LAMBDA asked :
        IF asked.result # "ok" THEN asked
        ELSE _process_rule_for_policy(
                 db, id, rule_info.firewall_rule_id, asked.ret.position))

\* remove_rule up to its call of _process_rule_for_policy: the checks, and
\* the row of the rule it reads (position None is 0)
_remove_rule_position(db, id, rule_info) ==
    IF _validate_insert_remove_rule_request(rule_info) # "ok"
    THEN Raise(db, _validate_insert_remove_rule_request(rule_info))
    ELSE
    LET firewall_rule_id == rule_info.firewall_rule_id
    IN  IF firewall_rule_id \notin DOMAIN db.fwr
        THEN Raise(db, "FirewallRuleNotFound")
        ELSE IF _get_policy_rule_association(db, id, firewall_rule_id) # "ok"
        THEN Raise(db, "FirewallRuleNotAssociatedWithPolicy")
        ELSE Ok(db, [position |-> 0])

remove_rule(db, id, rule_info) ==
    Let(_remove_rule_position(db, id, rule_info), LAMBDA asked :
        IF asked.result # "ok" THEN asked
        ELSE _process_rule_for_policy(
                 db, id, rule_info.firewall_rule_id, asked.ret.position))

get_firewall_policy(db, id) ==
    IF id \notin DOMAIN db.fwp THEN Raise(db, "FirewallPolicyNotFound")
    ELSE Ok(db, _make_firewall_policy_dict(db.fwp[id], rule_associations(db, id)))

----------------------------------------------------------------------------
(* Bulk replacement of a policy's rules, and the sharing checks *)

\* what _check_rules_for_policy_is_valid raises for one rule of the list
_check_rule_for_policy_is_valid(db, fwp, fwp_db, fwrule_id) ==
    IF fwrule_id \notin DOMAIN db.fwr THEN "FirewallRuleNotFound"
    ELSE IF Has(fwp, "shared")
    THEN IF fwp.shared /\ ~db.fwr[fwrule_id].shared
         THEN "FirewallRuleSharingConflict" ELSE "ok"
    ELSE IF fwp_db.shared /\ ~db.fwr[fwrule_id].shared
    THEN "FirewallRuleSharingConflict"
    ELSE IF /\ ~db.fwr[fwrule_id].shared
            /\ db.fwr[fwrule_id].tenant_id # fwp_db.tenant_id
    THEN "FirewallRuleConflict"
    ELSE "ok"

\* the first exception of the loop over rule_id_list, or "ok"
_check_rules_for_policy_is_valid(db, fwp, fwp_db, rule_id_list) ==
    LET bad == {i \in DOMAIN rule_id_list :
                   _check_rule_for_policy_is_valid(
                       db, fwp, fwp_db, rule_id_list[i]) # "ok"}
    IN  IF bad = {} THEN "ok"
        ELSE _check_rule_for_policy_is_valid(
                 db, fwp, fwp_db, rule_id_list[Min(bad)])

_check_if_rules_shared_for_policy_shared(db, fwp_db, fwp) ==
    IF /\ fwp.shared
       /\ \E r \in _get_rules_in_policy(db, fwp_db.id) : ~fwp_db.shared
    THEN "FirewallPolicySharingConflict" ELSE "ok"

\* the ids of the groups whose ingress, and whose egress, policy is fwp_id
_get_fwgs_with_policy(db, fwp_id) ==
    [ing |-> {g \in DOMAIN db.fwg :
                 db.fwg[g].ingress_firewall_policy_id = fwp_id},
     eg |-> {g \in DOMAIN db.fwg :
                 db.fwg[g].egress_firewall_policy_id = fwp_id}]

\* _check_fwgs_associated_with_policy_in_same_project looking only at the
\* groups that use the policy as their ingress policy
_check_fwgs_ingress_only(db, fwp_id, fwp_tenant_id) ==
    IF \E g \in DOMAIN db.fwg :
          /\ db.fwg[g].ingress_firewall_policy_id = fwp_id
          /\ db.fwg[g].tenant_id # fwp_tenant_id
    THEN "FirewallPolicyInUse" ELSE "ok"

_check_fwgs_associated_with_policy_in_same_project(db, fwp_id, fwp_tenant_id) ==
    IF \E g \in DOMAIN db.fwg :
          /\ \/ db.fwg[g].ingress_firewall_policy_id = fwp_id
             \/ db.fwg[g].egress_firewall_policy_id = fwp_id
          /\ db.fwg[g].tenant_id # fwp_tenant_id
    THEN "FirewallPolicyInUse" ELSE "ok"

\* _delete_all_rules_from_policy that deletes no row
_delete_all_rules_from_policy_none(db, fwp_db) == db

_delete_all_rules_from_policy(db, fwp_db) == WithAssociations(db, fwp_db.id, {})

\* the rows added for the list, at positions 0, 1, ...; two rows of one
\* rule have the same primary key
_set_rules_in_policy_rule_assoc(db, fwp_db, fwp) ==
    LET rule_id_list == fwp.firewall_rules
    IN  IF Cardinality(Range(rule_id_list)) # Len(rule_id_list)
        THEN Raise(db, "DBDuplicateEntry")
        ELSE Ok([db EXCEPT !.fwpra = db.fwpra \cup
                    {[firewall_policy_id |-> fwp_db.id,
                      firewall_rule_id |-> rule_id_list[i],
                      position |-> i - 1] : i \in DOMAIN rule_id_list}],
                NoRet)

\* ret is fwp_db.rule_associations, the in-memory list, after the call
_set_rules_for_policy(db, fwp_db, fwp) ==
    LET rule_id_list == fwp.firewall_rules
        valid == _check_rules_for_policy_is_valid(db, fwp, fwp_db, rule_id_list)
        added == _set_rules_in_policy_rule_assoc(
                     _delete_all_rules_from_policy(db, fwp_db), fwp_db, fwp)
        \* the rows of the policy and of the rules of the list, by rule id
        rules_dict == [r \in Range(rule_id_list) |->
                          CHOOSE a \in added.db.fwpra :
                              /\ a.firewall_policy_id = fwp_db.id
                              /\ a.firewall_rule_id = r]
        list == [i \in DOMAIN rule_id_list |->
                    rules_dict[rule_id_list[i]].firewall_rule_id]
    IN  IF rule_id_list = <<>>
        THEN Ok(_delete_all_rules_from_policy(db, fwp_db), <<>>)
        ELSE IF valid # "ok" THEN Raise(db, valid)
        ELSE IF added.result # "ok" THEN Raise(db, added.result)
        ELSE Ok(WithAssociations(added.db, fwp_db.id, reorder(fwp_db.id, list)),
                list)

\* Checks that a resource is not default by checking its name
_ensure_not_default_resource(resource, r_type, action) ==
    IF r_type = "firewall_group"
    THEN IF Get(resource, "name", "") = DEFAULT_FWG
         THEN IF action = "update" THEN "FirewallDefaultObjectUpdateRestricted"
              ELSE "FirewallDefaultParameterExists"
         ELSE "ok"
    ELSE IF r_type = "firewall_policy"
    THEN IF Get(resource, "name", "") \in {DEFAULT_FWP_INGRESS, DEFAULT_FWP_EGRESS}
         THEN IF action = "update" THEN "FirewallDefaultObjectUpdateRestricted"
              ELSE "FirewallDefaultParameterExists"
         ELSE "ok"
    ELSE "ok"

_do_create_firewall_policy(db, fwp) ==
    LET id == generate_uuid(DOMAIN db.fwp \cup db.held.fwp)
        fwp_db == [id |-> id,
                   tenant_id |-> fwp.tenant_id,
                   name |-> fwp.name,
                   audited |-> fwp.audited,
                   shared |-> fwp.shared]
        set == _set_rules_for_policy(
                   [db EXCEPT !.fwp = db.fwp @@ (id :> fwp_db)], fwp_db, fwp)
    IN  IF set.result # "ok" THEN Raise(db, set.result)
        ELSE Ok(set.db, _make_firewall_policy_dict(fwp_db, set.ret))

create_firewall_policy(db, fwp) ==
    IF _ensure_not_default_resource(fwp, "firewall_policy", None) # "ok"
    THEN Raise(db, _ensure_not_default_resource(fwp, "firewall_policy", None))
    ELSE _do_create_firewall_policy(db, fwp)

_create_default_firewall_policy(db, tenant_id, policy_type, fwrs) ==
    _do_create_firewall_policy(db,
        [name |-> IF policy_type = "ingress"
                  THEN DEFAULT_FWP_INGRESS ELSE DEFAULT_FWP_EGRESS,
         audited |-> FALSE,
         shared |-> FALSE,
         firewall_rules |-> fwrs,
         tenant_id |-> tenant_id])

update_firewall_policy(db, id, fwp) ==
    IF id \notin DOMAIN db.fwp THEN Raise(db, "FirewallPolicyNotFound")
    ELSE
    LET fwp_db == db.fwp[id]
        set == IF Has(fwp, "firewall_rules")
               THEN _set_rules_for_policy(db, fwp_db, fwp)
               ELSE Ok(db, rule_associations(db, id))
        rest == Without(fwp, {"firewall_rules"})
        cols == IF Has(rest, "audited") THEN rest
                ELSE [k \in DOMAIN rest \cup {"audited"} |->
                         IF k = "audited" THEN FALSE ELSE rest[k]]
        updated == RowUpdate(fwp_db, cols)
    IN  IF _ensure_not_default_resource(fwp_db, "firewall_policy", "update") # "ok"
        THEN Raise(db, "FirewallDefaultObjectUpdateRestricted")
        ELSE IF /\ ~Get(fwp, "shared", TRUE)
                /\ _check_fwgs_associated_with_policy_in_same_project(
                       db, id, fwp_db.tenant_id) # "ok"
        THEN Raise(db, "FirewallPolicyInUse")
        ELSE IF /\ Has(fwp, "shared") /\ ~Has(fwp, "firewall_rules")
                /\ _check_if_rules_shared_for_policy_shared(db, fwp_db, fwp) # "ok"
        THEN Raise(db, "FirewallPolicySharingConflict")
        ELSE IF set.result # "ok" THEN Raise(db, set.result)
        ELSE Ok([set.db EXCEPT !.fwp[id] = updated],
                _make_firewall_policy_dict(updated, set.ret))

delete_firewall_policy(db, id) ==
    IF id \notin DOMAIN db.fwp THEN Raise(db, "FirewallPolicyNotFound")
    ELSE IF _get_fwgs_with_policy(db, id).ing # {}
    THEN Raise(db, "FirewallPolicyInUse")
    ELSE IF _get_fwgs_with_policy(db, id).eg # {}
    THEN Raise(db, "FirewallPolicyInUse")
    ELSE LET cleared == _delete_all_rules_from_policy(db, db.fwp[id])
         IN  Ok([cleared EXCEPT !.fwp = Drop(cleared.fwp, {id})], NoRet)

----------------------------------------------------------------------------
(* Groups and the default firewall group *)

\* cfg.CONF.router_distributed
router_distributed == FALSE

_make_firewall_group_dict(db, firewall_group) ==
    [id |-> firewall_group.id,
     tenant_id |-> firewall_group.tenant_id,
     name |-> firewall_group.name,
     ingress_firewall_policy_id |-> firewall_group.ingress_firewall_policy_id,
     egress_firewall_policy_id |-> firewall_group.egress_firewall_policy_id,
     admin_state_up |-> firewall_group.admin_state_up,
     ports |-> {a.port_id : a \in {b \in db.fwgpa :
                                      b.firewall_group_id = firewall_group.id}},
     status |-> firewall_group.status,
     shared |-> firewall_group.shared]

get_firewall_group(db, id) ==
    IF id \notin DOMAIN db.fwg THEN Raise(db, "FirewallGroupNotFound")
    ELSE Ok(db, _make_firewall_group_dict(db, db.fwg[id]))

\* what the check of one policy reference of a group request raises
_validate_tenant_for_fwg_policy(db, fwg, key, fwg_tenant_id) ==
    IF ~Has(fwg, key) \/ fwg[key] = NoId THEN "ok"
    ELSE IF fwg[key] \notin DOMAIN db.fwp THEN "FirewallPolicyNotFound"
    ELSE IF /\ fwg_tenant_id # db.fwp[fwg[key]].tenant_id
            /\ ~db.fwp[fwg[key]].shared
    THEN "FirewallPolicyConflict"
    ELSE "ok"

\* _validate_tenant_for_fwg_policies with the egress half left out
_validate_tenant_for_fwg_policies_ingress_only(db, fwg, fwg_tenant_id) ==
    _validate_tenant_for_fwg_policy(
        db, fwg, "ingress_firewall_policy_id", fwg_tenant_id)

_validate_tenant_for_fwg_policies(db, fwg, fwg_tenant_id) ==
    IF _validate_tenant_for_fwg_policy(
           db, fwg, "ingress_firewall_policy_id", fwg_tenant_id) # "ok"
    THEN _validate_tenant_for_fwg_policy(
             db, fwg, "ingress_firewall_policy_id", fwg_tenant_id)
    ELSE _validate_tenant_for_fwg_policy(
             db, fwg, "egress_firewall_policy_id", fwg_tenant_id)

\* _exc_ports of a table that refuses no row
_exc_ports_none(bound, port_id_list) == <<>>

\* _exc_ports that reports the whole request once a row is refused
_exc_ports_all(bound, port_id_list) == IF Range(port_id_list) \cap bound = {} THEN <<>> ELSE port_id_list

\* the ports of the list whose row the table refuses (port_id is unique),
\* the rows before it in the list being added
RECURSIVE _exc_ports(_, _)
_exc_ports(bound, port_id_list) ==
    IF port_id_list = <<>> THEN <<>>
    ELSE IF Head(port_id_list) \in bound
    THEN <<Head(port_id_list)>> \o _exc_ports(bound, Tail(port_id_list))
    ELSE _exc_ports(bound \cup {Head(port_id_list)}, Tail(port_id_list))

_set_ports_for_firewall_group(db, fwg_db, fwg) ==
    LET port_id_list == fwg.ports
        exc_ports == _exc_ports({a.port_id : a \in db.fwgpa}, port_id_list)
    IN  IF port_id_list = <<>> THEN Ok(db, NoRet)
        ELSE IF exc_ports # <<>>
        THEN [db |-> db, result |-> "FirewallGroupPortInUse", ret |-> [port_ids |-> exc_ports]]
        ELSE Ok([db EXCEPT !.fwgpa = db.fwgpa \cup
                    {[firewall_group_id |-> fwg_db.id, port_id |-> q] :
                        q \in Range(port_id_list)}],
                NoRet)

_delete_ports_in_firewall_group(db, firewall_group_id) ==
    [db EXCEPT !.fwgpa = {a \in db.fwgpa : a.firewall_group_id # firewall_group_id}]

\* the id of a group of the project named DEFAULT_FWG, or NoId
_get_default_fwg_id(db, tenant_id) ==
    LET default_fwg == {g \in DOMAIN db.fwg :
                           /\ db.fwg[g].tenant_id = tenant_id
                           /\ db.fwg[g].name = DEFAULT_FWG}
    IN  IF default_fwg = {} THEN NoId ELSE Min(default_fwg)

\* _default_fwr with the rule shared
_default_fwr_shared(tenant_id, name, ip_version, action) ==
    [name |-> name,
     shared |-> TRUE,
     protocol |-> None,
     tenant_id |-> tenant_id,
     ip_version |-> ip_version,
     action |-> action,
     enabled |-> TRUE,
     source_port |-> NoRange,
     source_ip_address |-> None,
     destination_port |-> NoRange,
     destination_ip_address |-> None]

\* the request of a default rule of _create_default_firewall_rules
_default_fwr(tenant_id, name, ip_version, action) ==
    [name |-> name,
     shared |-> FALSE,
     protocol |-> None,
     tenant_id |-> tenant_id,
     ip_version |-> ip_version,
     action |-> action,
     enabled |-> TRUE,
     source_port |-> NoRange,
     source_ip_address |-> None,
     destination_port |-> NoRange,
     destination_ip_address |-> None]

\* ret is the ids of the four rules
_create_default_firewall_rules(db, tenant_id) ==
    Let(create_firewall_rule(db, _default_fwr(
            tenant_id, "default ingress ipv4 (deny all)", IP_VERSION_4, FWAAS_DENY)),
        LAMBDA in4 :
    Let(create_firewall_rule(in4.db, _default_fwr(
            tenant_id, "default ingress ipv6 (deny all)", IP_VERSION_6, FWAAS_DENY)),
        LAMBDA in6 :
    Let(create_firewall_rule(in6.db, _default_fwr(
            tenant_id, "default egress ipv4 (allow all)", IP_VERSION_4, FWAAS_ALLOW)),
        LAMBDA eg4 :
    Let(create_firewall_rule(eg4.db, _default_fwr(
            tenant_id, "default egress ipv6 (allow all)", IP_VERSION_6, FWAAS_ALLOW)),
        LAMBDA eg6 :
    Ok(eg6.db, [in_ipv4 |-> in4.ret.id, in_ipv6 |-> in6.ret.id,
                eg_ipv4 |-> eg4.ret.id, eg_ipv6 |-> eg6.ret.id])))))

\* _create_firewall_group once a default group is known to exist, or is not
\* asked for: the checks of the request and the new row
_add_firewall_group(db, fwg, status) ==
    LET tenant_id == fwg.tenant_id
        id == generate_uuid(DOMAIN db.fwg \cup db.held.fwg)
        fwg_db == [id |-> id,
                   tenant_id |-> tenant_id,
                   name |-> fwg.name,
                   status |-> IF status = None
                              THEN IF router_distributed THEN CREATED
                                   ELSE PENDING_CREATE
                              ELSE status,
                   ingress_firewall_policy_id |-> fwg.ingress_firewall_policy_id,
                   egress_firewall_policy_id |-> fwg.egress_firewall_policy_id,
                   admin_state_up |-> fwg.admin_state_up,
                   shared |-> fwg.shared]
        db1 == [db EXCEPT !.fwg = db.fwg @@ (id :> fwg_db)]
        ports == _set_ports_for_firewall_group(db1, fwg_db, fwg)
    IN  IF _validate_tenant_for_fwg_policies(db, fwg, tenant_id) # "ok"
        THEN Raise(db, _validate_tenant_for_fwg_policies(db, fwg, tenant_id))
        ELSE IF ports.result # "ok"
        THEN [db |-> db, result |-> ports.result, ret |-> ports.ret]
        ELSE Ok(ports.db, _make_firewall_group_dict(ports.db, fwg_db))

\* the block of _ensure_default_firewall_group inside the transaction: the
\* rules, the policies, the group and the marker row it adds to the session.
\* _create_firewall_group(default_fwg=True) looks for the default group
\* again and, finding one, calls get_firewall_group without its context
\* argument.
_default_fwg_transaction(db, tenant_id) ==
    Let(_create_default_firewall_rules(db, tenant_id), LAMBDA fwr_ids :
    Let(_create_default_firewall_policy(
            fwr_ids.db, tenant_id, "ingress",
            <<fwr_ids.ret.in_ipv4, fwr_ids.ret.in_ipv6>>), LAMBDA ingress_fwp_db :
    Let(_create_default_firewall_policy(
            ingress_fwp_db.db, tenant_id, "egress",
            <<fwr_ids.ret.eg_ipv4, fwr_ids.ret.eg_ipv6>>), LAMBDA egress_fwp_db :
    Let(_add_firewall_group(
            egress_fwp_db.db,
            [name |-> DEFAULT_FWG,
             tenant_id |-> tenant_id,
             ingress_firewall_policy_id |-> ingress_fwp_db.ret.id,
             egress_firewall_policy_id |-> egress_fwp_db.ret.id,
             ports |-> <<>>,
             shared |-> FALSE,
             admin_state_up |-> TRUE],
            INACTIVE), LAMBDA fwg_db :
    IF _get_default_fwg_id(egress_fwp_db.db, tenant_id) # NoId
    THEN Raise(db, "TypeError")
    ELSE Ok([fwg_db.db EXCEPT !.dfwg = fwg_db.db.dfwg \cup
                {[project_id |-> tenant_id,
                  firewall_group_id |-> fwg_db.ret.id]}],
            fwg_db.ret.id)))))

\* _marker_conflict with no primary key on default_firewall_groups
_marker_conflict_none(db, tenant_id) == FALSE

\* the flush of the marker row: project_id is the primary key of
\* default_firewall_groups
_marker_conflict(db, tenant_id) == \E m \in db.dfwg : m.project_id = tenant_id

\* _ensure_default_firewall_group run from its first line to its return
\* with no other session committing in between
_ensure_default_firewall_group(db, tenant_id) ==
    Let(_get_default_fwg_id(db, tenant_id), LAMBDA exists :
    IF exists # NoId THEN Ok(db, exists)
    ELSE Let(_default_fwg_transaction(db, tenant_id), LAMBDA txn :
         IF txn.result # "ok" THEN Raise(db, txn.result)
         ELSE IF _marker_conflict(db, tenant_id)
         THEN Ok(db, _get_default_fwg_id(db, tenant_id))
         ELSE txn))

\* _create_firewall_group(default_fwg=False)
_create_firewall_group(db, fwg, status) ==
    Let(_ensure_default_firewall_group(db, fwg.tenant_id), LAMBDA ensured :
    IF ensured.result # "ok" THEN ensured
    ELSE _add_firewall_group(ensured.db, fwg, status))

create_firewall_group(db, fwg, status) ==
    IF _ensure_not_default_resource(fwg, "firewall_group", None) # "ok"
    THEN Raise(db, _ensure_not_default_resource(fwg, "firewall_group", None))
    ELSE _create_firewall_group(db, fwg, status)

update_firewall_group(db, context, id, fwg) ==
    IF _ensure_not_default_resource(fwg, "firewall_group", None) # "ok"
    THEN Raise(db, _ensure_not_default_resource(fwg, "firewall_group", None))
    ELSE IF id \notin DOMAIN db.fwg THEN Raise(db, "FirewallGroupNotFound")
    ELSE
    LET fwg_db == _make_firewall_group_dict(db, db.fwg[id])
        ports == IF Has(fwg, "ports")
                 THEN _set_ports_for_firewall_group(
                          _delete_ports_in_firewall_group(db, id), fwg_db, fwg)
                 ELSE Ok(db, NoRet)
        cols == Without(fwg, {"ports"})
        db2 == [ports.db EXCEPT !.fwg[id] = RowUpdate(db.fwg[id], cols)]
    IN  IF /\ \/ ~context.is_admin
              \/ Get(fwg, "status", "") # PENDING_DELETE
           /\ _ensure_not_default_resource(fwg_db, "firewall_group", "update") # "ok"
        THEN Raise(db, "FirewallDefaultObjectUpdateRestricted")
        ELSE IF _validate_tenant_for_fwg_policies(db, fwg, fwg_db.tenant_id) # "ok"
        THEN Raise(db, _validate_tenant_for_fwg_policies(
                           db, fwg, fwg_db.tenant_id))
        ELSE IF ports.result # "ok"
        THEN [db |-> db, result |-> ports.result, ret |-> ports.ret]
        ELSE Ok(db2, _make_firewall_group_dict(db2, db2.fwg[id]))

\* update_firewall_group_status with the status written whatever the group's
\* status is
update_firewall_group_status_unconditional(db, id, status, not_in) ==
    IF id \in DOMAIN db.fwg
    THEN Ok([db EXCEPT !.fwg[id].status = status], [count |-> 1])
    ELSE Ok(db, [count |-> 0])

\* one UPDATE of the rows with this id whose status is not in not_in (None
\* is the empty list); count is the number of rows it matched
update_firewall_group_status(db, id, status, not_in) ==
    IF id \in DOMAIN db.fwg /\ db.fwg[id].status \notin not_in
    THEN Ok([db EXCEPT !.fwg[id].status = status], [count |-> 1])
    ELSE Ok(db, [count |-> 0])

\* _delete_group_row with the rows of the port table left behind
_delete_group_row_only(db, id) == [db EXCEPT !.fwg = Drop(db.fwg, {id}), !.dfwg = {m \in db.dfwg : m.firewall_group_id # id}]

\* the rows of a group go with it: both tables that refer to a group do so
\* with ondelete="CASCADE"
_delete_group_row(db, id) ==
    [db EXCEPT !.fwg = Drop(db.fwg, {id}),
               !.fwgpa = {a \in db.fwgpa : a.firewall_group_id # id},
               !.dfwg = {m \in db.dfwg : m.firewall_group_id # id}]

\* a delete of a missing group that lets FirewallGroupNotFound through
_delete_missing_group_raises(db) == Raise(db, "FirewallGroupNotFound")

\* if no such group exists -> don't raise an exception, return None
_delete_missing_group(db) == Ok(db, NoRet)

delete_firewall_group(db, context, id) ==
    IF id \notin DOMAIN db.fwg THEN _delete_missing_group(db)
    ELSE
    LET fwg_db == db.fwg[id]
        gone == _delete_group_row(db, id)
        ing == delete_firewall_policy(gone, fwg_db.ingress_firewall_policy_id)
        eg == delete_firewall_policy(ing.db, fwg_db.egress_firewall_policy_id)
    IN  IF fwg_db.name = DEFAULT_FWG
        THEN IF context.is_admin
             THEN IF ing.result # "ok" THEN Raise(db, ing.result)
                  ELSE IF eg.result # "ok" THEN Raise(db, eg.result)
                  ELSE Ok(eg.db, NoRet)
             ELSE Raise(db, "FirewallGroupCannotRemoveDefault")
        ELSE Ok(gone, NoRet)

----------------------------------------------------------------------------
(* State and actions *)

Tenants == {"A", "B"}

NoSession == [fwr |-> <<>>, fwp |-> <<>>, fwpra |-> {}, fwg |-> <<>>, dfwg |-> {}]

\* a caller that is not inside _ensure_default_firewall_group
Idle == [pc |-> "idle", tenant_id |-> None, raced |-> FALSE,
         result |-> None, ret |-> NoId, session |-> NoSession]

EmptyDB == [fwr |-> <<>>, fwp |-> <<>>, fwpra |-> {}, fwg |-> <<>>,
            fwgpa |-> {}, dfwg |-> {},
            held |-> [fwr |-> {}, fwp |-> {}, fwg |-> {}]]

\* the tables hold db
TablesAre(db) ==
    /\ firewall_rules_v2 = db.fwr
    /\ firewall_policies_v2 = db.fwp
    /\ firewall_policy_rule_associations_v2 = db.fwpra
    /\ firewall_groups_v2 = db.fwg
    /\ firewall_group_port_associations_v2 = db.fwgpa
    /\ default_firewall_groups = db.dfwg

\* the transaction of a call ends: the tables become db
Commit(db) ==
    /\ firewall_rules_v2' = db.fwr
    /\ firewall_policies_v2' = db.fwp
    /\ firewall_policy_rule_associations_v2' = db.fwpra
    /\ firewall_groups_v2' = db.fwg
    /\ firewall_group_port_associations_v2' = db.fwgpa
    /\ default_firewall_groups' = db.dfwg

\* a call of handler op on id with request req ends with outcome o
Call(op, id, req, o) ==
    /\ Commit(o.db)
    /\ last' = [op |-> op, id |-> id, req |-> req,
                result |-> o.result, ret |-> o.ret]
    /\ UNCHANGED calls

NoCall == [op |-> None, id |-> NoId, req |-> <<>>, result |-> None, ret |-> NoRet]

CreateFirewallRule(fwr) ==
    Call("create_firewall_rule", NoId, fwr, create_firewall_rule(DB, fwr))

UpdateFirewallRule(id, fwr) ==
    Call("update_firewall_rule", id, fwr, update_firewall_rule(DB, id, fwr))

DeleteFirewallRule(id) ==
    Call("delete_firewall_rule", id, <<>>, delete_firewall_rule(DB, id))

InsertRule(id, rule_info) ==
    Call("insert_rule", id, rule_info, insert_rule(DB, id, rule_info))

RemoveRule(id, rule_info) ==
    Call("remove_rule", id, rule_info, remove_rule(DB, id, rule_info))

GetFirewallPolicy(id) ==
    Call("get_firewall_policy", id, <<>>, get_firewall_policy(DB, id))

CreateFirewallPolicy(fwp) ==
    Call("create_firewall_policy", NoId, fwp, create_firewall_policy(DB, fwp))

UpdateFirewallPolicy(id, fwp) ==
    Call("update_firewall_policy", id, fwp, update_firewall_policy(DB, id, fwp))

DeleteFirewallPolicy(id) ==
    Call("delete_firewall_policy", id, <<>>, delete_firewall_policy(DB, id))

CreateFirewallGroup(fwg) ==
    Call("create_firewall_group", NoId, fwg, create_firewall_group(DB, fwg, None))

UpdateFirewallGroup(context, id, fwg) ==
    Call("update_firewall_group", id, [context |-> context, firewall_group |-> fwg],
         update_firewall_group(DB, context, id, fwg))

DeleteFirewallGroup(context, id) ==
    Call("delete_firewall_group", id, [context |-> context],
         delete_firewall_group(DB, context, id))

----------------------------------------------------------------------------
(* Requests *)

\* a rule request of a project: tcp to port 80, IPv4
RuleRequest(tenant_id, shared) ==
    [name |-> "fwr",
     shared |-> shared,
     protocol |-> PROTO_NAME_TCP,
     tenant_id |-> tenant_id,
     ip_version |-> IP_VERSION_4,
     action |-> FWAAS_ALLOW,
     enabled |-> TRUE,
     source_port |-> NoRange,
     source_ip_address |-> None,
     destination_port |-> <<80>>,
     destination_ip_address |-> None]

PolicyRequest(tenant_id, shared, audited, firewall_rules) ==
    [name |-> "fwp",
     audited |-> audited,
     shared |-> shared,
     firewall_rules |-> firewall_rules,
     tenant_id |-> tenant_id]

\* db after n rules of the request are created
RECURSIVE WithRules(_, _, _)
WithRules(db, n, fwr) ==
    IF n = 0 THEN db
    ELSE WithRules(create_firewall_rule(db, fwr).db, n - 1, fwr)

\* the sequences of distinct elements of S
RECURSIVE Lists(_)
Lists(S) ==
    {<<>>} \cup UNION {{<<x>> \o l : l \in Lists(S \ {x})} : x \in S}

----------------------------------------------------------------------------
(* SpecInsert: insert_rule and remove_rule on one policy *)

\* the rules of the policy's project
NumRules == 3

\* rules 1..NumRules are private rules of project A, rule NumRules + 1 is a
\* private rule of project B, policy 1 is an audited policy of project A
\* with no rule
InsertDB ==
    create_firewall_policy(
        WithRules(WithRules(EmptyDB, NumRules, RuleRequest("A", FALSE)),
                  1, RuleRequest("B", FALSE)),
        PolicyRequest("A", FALSE, TRUE, <<>>)).db

\* a rule id of a request: no uuid, a rule, or the id of no rule
RuleIds == 0..(NumRules + 2)

\* the rule_info of the requests: every way of giving or not giving
\* insert_before and insert_after
RuleInfos ==
    {<<>>}
    \cup {[firewall_rule_id |-> r] : r \in RuleIds}
    \cup {[firewall_rule_id |-> r, insert_before |-> q] :
             r \in 1..NumRules, q \in 0..(NumRules + 1)}
    \cup {[firewall_rule_id |-> r, insert_after |-> q] :
             r \in 1..NumRules, q \in 0..(NumRules + 1)}
    \cup {[firewall_rule_id |-> r, insert_before |-> q, insert_after |-> q2] :
             r \in 1..NumRules, q \in 0..NumRules, q2 \in {0, 1}}

InsertInit ==
    /\ TablesAre(InsertDB)
    /\ calls = <<>>
    /\ last = NoCall

InsertNext ==
    \/ \E id \in 1..2, rule_info \in RuleInfos : InsertRule(id, rule_info)
    \/ \E id \in 1..2, r \in RuleIds : RemoveRule(id, [firewall_rule_id |-> r])
    \/ \E id \in 1..2 : GetFirewallPolicy(id)

SpecInsert == InsertInit /\ [][InsertNext]_vars

----------------------------------------------------------------------------
(* Properties of insert_rule *)

\* the rule list a reader observes for policy p
ObservedRules(p) == get_firewall_policy(DB, p).ret.firewall_rules

\* the rule list a reader observes for policy p once the step is taken
ObservedAfter(p) == get_firewall_policy(DB', p).ret.firewall_rules

\* the index of rule q in list l
IndexOf(l, q) == CHOOSE i \in DOMAIN l : l[i] = q

\* new is old with x put at index t, the rules from t on moved up by one
InsertedAt(old, new, x, t) ==
    /\ Len(new) = Len(old) + 1
    /\ new[t] = x
    /\ \A i \in 1..(t - 1) : new[i] = old[i]
    /\ \A i \in t..Len(old) : new[i + 1] = old[i]

\* the step is a successful insert_rule
InsertDone == last'.op = "insert_rule" /\ last'.result = "ok"

\* C3: a successful insert_rule of R before reference rule Q, at index k of
\* the policy's rule list, leaves R at index k, and after Q at index k + 1
\* (insert_after counts when insert_before is absent or empty); the rules
\* from that index on move up by one and the other rules keep their places.
C3_InsertAtReference ==
    [][InsertDone =>
        LET req == last'.req
            before == Get(req, "insert_before", NoId)
            after == Get(req, "insert_after", NoId)
            old == ObservedRules(last'.id)
        IN  /\ (before # NoId) =>
                InsertedAt(old, ObservedAfter(last'.id), req.firewall_rule_id,
                           IndexOf(old, before))
            /\ (before = NoId /\ after # NoId) =>
                InsertedAt(old, ObservedAfter(last'.id), req.firewall_rule_id,
                           IndexOf(old, after) + 1)
    ]_vars

\* a rule was inserted after a reference rule that other rules follow
C3_Witness ==
    /\ last.op = "insert_rule" /\ last.result = "ok"
    /\ Get(last.req, "insert_before", NoId) = NoId
    /\ Get(last.req, "insert_after", NoId) # NoId
    /\ Len(ObservedRules(last.id)) = 3
    /\ ObservedRules(last.id)[2] = last.req.firewall_rule_id

\* C4: a successful insert_rule that names no reference rule (insert_before
\* and insert_after absent or empty) leaves the rule at position 1 and
\* moves every rule the policy had up by one.
C4_InsertAtTop ==
    [][(/\ InsertDone
        /\ Get(last'.req, "insert_before", NoId) = NoId
        /\ Get(last'.req, "insert_after", NoId) = NoId)
       => /\ InsertedAt(ObservedRules(last'.id), ObservedAfter(last'.id),
                        last'.req.firewall_rule_id, 1)
          /\ \E a \in firewall_policy_rule_associations_v2' :
                /\ a.firewall_policy_id = last'.id
                /\ a.firewall_rule_id = last'.req.firewall_rule_id
                /\ a.position = 1
    ]_vars

\* a rule was inserted at the top of a policy that had rules, by a request
\* that carries an empty insert_after
C4_Witness ==
    /\ last.op = "insert_rule" /\ last.result = "ok"
    /\ Get(last.req, "insert_before", NoId) = NoId
    /\ Has(last.req, "insert_after") /\ last.req.insert_after = NoId
    /\ Len(ObservedRules(last.id)) = 3
    /\ ObservedRules(last.id)[1] = last.req.firewall_rule_id

\* C5: insert_rule of a rule the policy already holds fails with
\* FirewallRuleAlreadyAssociated and changes no table: the policy's rows,
\* their positions and its audited flag are as before the call.
C5_AlreadyAssociated ==
    [][(/\ last'.op = "insert_rule"
        /\ Has(last'.req, "firewall_rule_id")
        /\ last'.req.firewall_rule_id \in
              _get_rules_in_policy(DB, last'.id))
       => /\ last'.result = "FirewallRuleAlreadyAssociated"
          /\ UNCHANGED tables
    ]_vars

\* an insert_rule of a rule of the policy was refused
C5_Witness ==
    /\ last.op = "insert_rule"
    /\ last.result = "FirewallRuleAlreadyAssociated"
    /\ last.req.firewall_rule_id \in _get_rules_in_policy(DB, last.id)
    /\ Len(ObservedRules(last.id)) >= 2

\* the rule is not one of the policy's rules
NotInPolicy(p, r) == r \notin _get_rules_in_policy(DB, p)

\* the step is a remove_rule of a rule that exists and is not in the policy
RemovesUnassociated ==
    /\ last'.op = "remove_rule"
    /\ last'.req.firewall_rule_id \in DOMAIN firewall_rules_v2
    /\ NotInPolicy(last'.id, last'.req.firewall_rule_id)

\* the step is an insert_rule on a policy whose request names a reference
\* rule that is not in the policy
InsertsAtUnassociated ==
    /\ last'.op = "insert_rule"
    /\ last'.id \in DOMAIN firewall_policies_v2
    /\ Has(last'.req, "firewall_rule_id")
    /\ RefRule(last'.req).ref # NoId
    /\ NotInPolicy(last'.id, RefRule(last'.req).ref)

\* the rule the request inserts exists, is not in the policy and is shared
\* or of the policy's project
Insertable ==
    /\ last'.req.firewall_rule_id \in DOMAIN firewall_rules_v2
    /\ NotInPolicy(last'.id, last'.req.firewall_rule_id)
    /\ \/ firewall_rules_v2[last'.req.firewall_rule_id].shared
       \/ firewall_rules_v2[last'.req.firewall_rule_id].tenant_id
             = firewall_policies_v2[last'.id].tenant_id

NotAssociatedOutcome ==
    /\ last'.result = "FirewallRuleNotAssociatedWithPolicy"
    /\ UNCHANGED tables

\* C19 as stated: remove_rule of an existing rule that is not in the policy,
\* and insert_rule naming a reference rule that is not in the policy, fail
\* with FirewallRuleNotAssociatedWithPolicy and change no table.
C19_NotAssociated ==
    [][(RemovesUnassociated \/ InsertsAtUnassociated) => NotAssociatedOutcome
    ]_vars

\* C19, for an insert_rule of a rule that can be inserted: remove_rule of an
\* existing rule that is not in the policy, and insert_rule of an existing
\* rule, not in the policy and shared or of the policy's project, naming a
\* reference rule that is not in the policy, fail with
\* FirewallRuleNotAssociatedWithPolicy and change no table.
C19_NotAssociatedInsertable ==
    [][(RemovesUnassociated \/ (InsertsAtUnassociated /\ Insertable))
       => NotAssociatedOutcome
    ]_vars

\* an insert_rule after a rule that exists and is not in the policy, which
\* holds two rules, was refused
C19_Witness ==
    /\ last.op = "insert_rule"
    /\ last.result = "FirewallRuleNotAssociatedWithPolicy"
    /\ Has(last.req, "insert_after")
    /\ last.req.insert_after \in DOMAIN firewall_rules_v2
    /\ NotInPolicy(last.id, last.req.insert_after)
    /\ Len(ObservedRules(last.id)) = 2

\* insert_rule of the rule that the step has removed, with no reference
\* rule, on the tables the step leaves
Reinserted ==
    insert_rule(DB', last'.id, [firewall_rule_id |-> last'.req.firewall_rule_id])

\* a successful remove_rule of the rule at position 1 of its policy
RemovesFirstRule ==
    /\ last'.op = "remove_rule" /\ last'.result = "ok"
    /\ ObservedRules(last'.id)[1] = last'.req.firewall_rule_id

\* C35: after remove_rule(P, R) of the rule R at position 1 of P,
\* insert_rule(P, R) with no reference rule succeeds and gives P the rule
\* list it had before the removal, R at position 1.
C35_RemoveInsertRoundTrip ==
    [][RemovesFirstRule
       => /\ Reinserted.result = "ok"
          /\ Reinserted.ret.firewall_rules = ObservedRules(last'.id)
          /\ get_firewall_policy(Reinserted.db, last'.id).ret.firewall_rules
                 = ObservedRules(last'.id)
          /\ Reinserted.ret.firewall_rules[1] = last'.req.firewall_rule_id
    ]_vars

\* the first of NumRules rules of a policy was removed, and inserting it
\* again with no reference rule gives a list of NumRules rules with the
\* rule first
C35_Witness ==
    /\ last.op = "remove_rule" /\ last.result = "ok"
    /\ Len(ObservedRules(last.id)) = NumRules - 1
    /\ Let(insert_rule(DB, last.id,
                       [firewall_rule_id |-> last.req.firewall_rule_id]),
           LAMBDA again :
               /\ again.result = "ok"
               /\ Len(again.ret.firewall_rules) = NumRules
               /\ again.ret.firewall_rules[1] = last.req.firewall_rule_id
               /\ \A i \in 1..(NumRules - 1) :
                      again.ret.firewall_rules[i + 1] = ObservedRules(last.id)[i])

----------------------------------------------------------------------------
(* SpecOrder: every operation that changes the rules of a policy *)

\* the rules, all private rules of project A
OrderRules == 2
\* the policies created
MaxPolicies == 1

OrderDB == WithRules(EmptyDB, OrderRules, RuleRequest("A", FALSE))

\* the rule lists of the bulk requests: the lists of distinct rules, a list
\* that names a rule twice and a list that names the id of no rule
OrderLists ==
    Lists(1..OrderRules) \cup {<<1, 1>>, <<1, OrderRules + 1>>}

\* the rule_info of the requests: no reference rule, or a rule to insert
\* before or after
OrderRuleInfos ==
    {<<>>}
    \cup {[firewall_rule_id |-> r] : r \in 0..(OrderRules + 1)}
    \cup {[firewall_rule_id |-> r, insert_before |-> q] :
             r \in 1..OrderRules, q \in 1..OrderRules}
    \cup {[firewall_rule_id |-> r, insert_after |-> q] :
             r \in 1..OrderRules, q \in 1..OrderRules}

OrderInit ==
    /\ TablesAre(OrderDB)
    /\ calls = <<>>
    /\ last = NoCall

OrderNext ==
    \/ \E l \in OrderLists :
          /\ Cardinality(DOMAIN firewall_policies_v2) < MaxPolicies
          /\ CreateFirewallPolicy(PolicyRequest("A", FALSE, FALSE, l))
    \/ \E id \in DOMAIN firewall_policies_v2, l \in OrderLists :
          UpdateFirewallPolicy(id, [firewall_rules |-> l])
    \/ \E id \in DOMAIN firewall_policies_v2, rule_info \in OrderRuleInfos :
          InsertRule(id, rule_info)
    \/ \E id \in DOMAIN firewall_policies_v2, r \in 0..(OrderRules + 1) :
          RemoveRule(id, [firewall_rule_id |-> r])
    \/ \E id \in 1..(MaxPolicies + 1) : DeleteFirewallPolicy(id)
    \/ \E id \in 1..(MaxPolicies + 1) : GetFirewallPolicy(id)

SpecOrder == OrderInit /\ [][OrderNext]_vars

\* the rows of policy p
RowsOf(p) ==
    {a \in firewall_policy_rule_associations_v2 : a.firewall_policy_id = p}

\* the rows of policy p are those of list l: rule l[i] at position i
RowsAre(p, l) ==
    /\ Cardinality(RowsOf(p)) = Len(l)
    /\ \A i \in DOMAIN l :
          \E a \in RowsOf(p) : a.firewall_rule_id = l[i] /\ a.position = i

BulkSetDone ==
    /\ last'.op \in {"create_firewall_policy", "update_firewall_policy"}
    /\ last'.result = "ok"
    /\ Has(last'.req, "firewall_rules")
    /\ Cardinality(Range(last'.req.firewall_rules)) = Len(last'.req.firewall_rules)

\* C20: after a successful bulk set of a list of distinct rule ids on a
\* policy (create or update carrying firewall_rules) the rule list observed
\* for the policy, and the list returned, is that list in its order, and
\* the rules of the policy's rows are exactly those of the list, whatever
\* rows the policy had; after a bulk set of the empty list it has no row.
C20_BulkSetReplaces ==
    [][BulkSetDone =>
        /\ ObservedAfter(last'.ret.id) = last'.req.firewall_rules
        /\ last'.ret.firewall_rules = last'.req.firewall_rules
        /\ {a.firewall_rule_id :
               a \in {b \in firewall_policy_rule_associations_v2' :
                         b.firewall_policy_id = last'.ret.id}}
              = Range(last'.req.firewall_rules)
        /\ Cardinality({b \in firewall_policy_rule_associations_v2' :
                           b.firewall_policy_id = last'.ret.id})
              = Len(last'.req.firewall_rules)
    ]_vars

\* a bulk set left a policy with the rules of its list in the order of the
\* list, which is not the order of their ids
C20_Witness ==
    /\ last.op = "update_firewall_policy" /\ last.result = "ok"
    /\ last.req = [firewall_rules |-> <<2, 1>>]
    /\ ObservedRules(last.id) = <<2, 1>>
    /\ RowsAre(last.id, <<2, 1>>)

----------------------------------------------------------------------------
(* SpecRules: rules and policies of two projects, shared or not *)

\* the rules created
MaxRules == 2

\* the rule lists of the bulk requests
RulesLists == Lists(1..MaxRules)

RulesInit ==
    /\ TablesAre(EmptyDB)
    /\ calls = <<>>
    /\ last = NoCall

RulesNext ==
    \/ \E t \in Tenants, shared \in BOOLEAN :
          /\ Cardinality(DOMAIN firewall_rules_v2) < MaxRules
          /\ CreateFirewallRule(RuleRequest(t, shared))
    \/ \E id \in DOMAIN firewall_rules_v2, shared \in BOOLEAN :
          UpdateFirewallRule(id, [shared |-> shared])
    \/ \E shared \in BOOLEAN, l \in RulesLists :
          /\ Cardinality(DOMAIN firewall_policies_v2) < MaxPolicies
          /\ CreateFirewallPolicy(PolicyRequest("A", shared, FALSE, l))
    \/ \E id \in DOMAIN firewall_policies_v2, shared \in BOOLEAN :
          UpdateFirewallPolicy(id, [shared |-> shared])
    \/ \E id \in DOMAIN firewall_policies_v2, l \in RulesLists :
          UpdateFirewallPolicy(id, [firewall_rules |-> l])
    \/ \E id \in DOMAIN firewall_policies_v2, shared \in BOOLEAN, l \in RulesLists :
          UpdateFirewallPolicy(id, [shared |-> shared, firewall_rules |-> l])
    \/ \E id \in DOMAIN firewall_policies_v2, r \in 1..MaxRules :
          InsertRule(id, [firewall_rule_id |-> r])
    \/ \E id \in DOMAIN firewall_policies_v2, r \in 1..MaxRules :
          RemoveRule(id, [firewall_rule_id |-> r])

SpecRules == RulesInit /\ [][RulesNext]_vars

\* rule r is a private rule of another project than tenant_id
ForeignPrivate(r, tenant_id) ==
    /\ r \in DOMAIN firewall_rules_v2
    /\ ~firewall_rules_v2[r].shared
    /\ firewall_rules_v2[r].tenant_id # tenant_id

\* the list names rules that exist, each once
Listable(l) ==
    /\ Range(l) \subseteq DOMAIN firewall_rules_v2
    /\ Cardinality(Range(l)) = Len(l)

RuleConflicts == {"FirewallRuleConflict", "FirewallRuleSharingConflict"}

\* C6: a bulk set (policy create or update carrying firewall_rules) for a
\* non-shared policy of a project, with a list holding a private rule of
\* another project, fails with a rule conflict error and leaves the rows of
\* the policy as they were.
C6_BulkSetForeignRule ==
    [][/\ (/\ last'.op = "create_firewall_policy"
           /\ ~last'.req.shared
           /\ Listable(last'.req.firewall_rules)
           /\ \E r \in Range(last'.req.firewall_rules) :
                 ForeignPrivate(r, last'.req.tenant_id))
          => (last'.result \in RuleConflicts /\ UNCHANGED tables)
       /\ (/\ last'.op = "update_firewall_policy"
           /\ Has(last'.req, "firewall_rules")
           /\ last'.id \in DOMAIN firewall_policies_v2
           /\ ~firewall_policies_v2[last'.id].shared
           /\ ~Get(last'.req, "shared", FALSE)
           /\ Listable(last'.req.firewall_rules)
           /\ \E r \in Range(last'.req.firewall_rules) :
                 ForeignPrivate(r, firewall_policies_v2[last'.id].tenant_id))
          => (last'.result \in RuleConflicts /\ UNCHANGED tables)
    ]_vars

\* C7: in every state each rule of a policy is shared or is a rule of the
\* policy's project.
C7_RulesVisibleToPolicy ==
    \A a \in firewall_policy_rule_associations_v2 :
        ~ForeignPrivate(a.firewall_rule_id,
                        firewall_policies_v2[a.firewall_policy_id].tenant_id)

\* C8: update_firewall_policy with shared=true and no rule list succeeds
\* when every rule of the policy is shared or of the policy's project, and
\* fails with a sharing conflict, the policy unchanged, exactly when some
\* rule of the policy is a private rule of another project.
C8_SharePolicy ==
    [][(/\ last'.op = "update_firewall_policy"
        /\ DOMAIN last'.req = {"shared"}
        /\ last'.req.shared
        /\ last'.id \in DOMAIN firewall_policies_v2)
       => IF \E r \in _get_rules_in_policy(DB, last'.id) :
                ForeignPrivate(r, firewall_policies_v2[last'.id].tenant_id)
          THEN /\ last'.result \in {"FirewallPolicySharingConflict",
                                     "FirewallRuleSharingConflict"}
               /\ UNCHANGED tables
          ELSE /\ last'.result = "ok"
               /\ firewall_policies_v2'[last'.id].shared
    ]_vars

----------------------------------------------------------------------------
(* SpecGroups: groups, the policies they refer to, and the sharing flag *)

\* the groups a project creates besides its default group
MaxGroups == 1

\* the projects that create a policy, one policy at a time
PolicyOwners == {"A"}

GroupRequest(tenant_id, ingress, egress) ==
    [name |-> "fwg",
     tenant_id |-> tenant_id,
     ingress_firewall_policy_id |-> ingress,
     egress_firewall_policy_id |-> egress,
     ports |-> <<>>,
     shared |-> FALSE,
     admin_state_up |-> TRUE]

\* the context of a caller that is not an administrator
User == [is_admin |-> FALSE, tenant_id |-> "A"]

\* the policies that are not of a default group, and the groups that are
\* not default groups
UserPolicies ==
    {q \in DOMAIN firewall_policies_v2 :
        \A g \in DOMAIN firewall_groups_v2 :
            firewall_groups_v2[g].name = DEFAULT_FWG =>
                /\ firewall_groups_v2[g].ingress_firewall_policy_id # q
                /\ firewall_groups_v2[g].egress_firewall_policy_id # q}

UserGroups == {g \in DOMAIN firewall_groups_v2 :
                  firewall_groups_v2[g].name # DEFAULT_FWG}

\* a group request names at most one policy here
PolicyRefs == {<<q, NoId>> : q \in DOMAIN firewall_policies_v2 \cup {NoId}}
              \cup {<<NoId, q>> : q \in DOMAIN firewall_policies_v2}

\* both projects have their default group: each has made a first call
GroupsDB ==
    _ensure_default_firewall_group(
        _ensure_default_firewall_group(EmptyDB, "A").db, "B").db

GroupsInit == TablesAre(GroupsDB) /\ calls = <<>> /\ last = NoCall

GroupsNext ==
    \/ \E tenant_id \in PolicyOwners, shared \in BOOLEAN :
          /\ \A q \in UserPolicies :
                firewall_policies_v2[q].tenant_id # tenant_id
          /\ CreateFirewallPolicy(PolicyRequest(tenant_id, shared, FALSE, <<>>))
    \/ \E id \in DOMAIN firewall_policies_v2, shared \in BOOLEAN :
          /\ firewall_policies_v2[id].tenant_id \in PolicyOwners
          /\ UpdateFirewallPolicy(id, [shared |-> shared])
    \/ \E id \in UserPolicies :
          UpdateFirewallPolicy(id, [name |-> DEFAULT_FWP_INGRESS])
    \/ \E id \in DOMAIN firewall_policies_v2 :
          /\ firewall_policies_v2[id].tenant_id \in PolicyOwners
          /\ DeleteFirewallPolicy(id)
    \/ \E tenant_id \in Tenants, ref \in PolicyRefs :
          /\ Cardinality(UserGroups) < MaxGroups
          /\ CreateFirewallGroup(GroupRequest(tenant_id, ref[1], ref[2]))
    \/ \E id \in DOMAIN firewall_groups_v2, q \in DOMAIN firewall_policies_v2 :
          /\ firewall_policies_v2[q].tenant_id \in PolicyOwners
          /\ UpdateFirewallGroup(User, id, [egress_firewall_policy_id |-> q])
    \/ \E id \in DOMAIN firewall_groups_v2 : DeleteFirewallGroup(User, id)

SpecGroups == GroupsInit /\ [][GroupsNext]_vars

\* the groups of another project than policy q's that use q
ForeignGroupsOf(q) ==
    {g \in DOMAIN firewall_groups_v2 :
        /\ \/ firewall_groups_v2[g].ingress_firewall_policy_id = q
           \/ firewall_groups_v2[g].egress_firewall_policy_id = q
        /\ firewall_groups_v2[g].tenant_id # firewall_policies_v2[q].tenant_id}

ReservedName(q) ==
    firewall_policies_v2[q].name \in {DEFAULT_FWP_INGRESS, DEFAULT_FWP_EGRESS}

\* what the claim says of an update of policy q with shared = false
UnshareOutcome(q) ==
    IF ForeignGroupsOf(q) # {}
    THEN /\ last'.result = "FirewallPolicyInUse"
         /\ UNCHANGED tables
    ELSE (DOMAIN last'.req = {"shared"}) =>
             /\ last'.result = "ok"
             /\ ~firewall_policies_v2'[q].shared

Unshares ==
    /\ last'.op = "update_firewall_policy"
    /\ last'.id \in DOMAIN firewall_policies_v2
    /\ Has(last'.req, "shared")
    /\ ~last'.req.shared

\* C9 as stated: update_firewall_policy with shared = false on a policy that
\* a group of another project uses fails with FirewallPolicyInUse and leaves
\* the policy as it was; it is permitted when no such group uses the policy.
C9_UnshareInUse ==
    [][Unshares => UnshareOutcome(last'.id)]_vars

\* C9, for a policy that does not bear a reserved default policy name:
\* update_firewall_policy with shared = false fails with FirewallPolicyInUse,
\* the tables unchanged, when a group of another project uses the policy, and
\* succeeds, the policy no longer shared, when none does.
C9_UnshareUserPolicy ==
    [][(Unshares /\ ~ReservedName(last'.id)) => UnshareOutcome(last'.id)]_vars

C9_Witness ==
    /\ last.op = "update_firewall_policy"
    /\ last.req = [shared |-> FALSE]
    /\ last.result = "FirewallPolicyInUse"
    /\ last.id \in DOMAIN firewall_policies_v2
    /\ firewall_policies_v2[last.id].shared
    /\ ~ReservedName(last.id)
    /\ ForeignGroupsOf(last.id) # {}

\* the policy a group refers to under key is there, and is of the group's
\* project or shared
PolicyVisible(fwg_db, key) ==
    fwg_db[key] # NoId =>
        /\ fwg_db[key] \in DOMAIN firewall_policies_v2
        /\ \/ firewall_policies_v2[fwg_db[key]].tenant_id = fwg_db.tenant_id
           \/ firewall_policies_v2[fwg_db[key]].shared

GroupPoliciesVisible ==
    \A g \in DOMAIN firewall_groups_v2 :
        /\ PolicyVisible(firewall_groups_v2[g], "ingress_firewall_policy_id")
        /\ PolicyVisible(firewall_groups_v2[g], "egress_firewall_policy_id")

PolicyKeys == {"ingress_firewall_policy_id", "egress_firewall_policy_id"}

\* the request fwg of a group of project tenant_id names only policies that
\* exist, one of them a policy of another project that is not shared
NamesForeignPrivate(fwg, tenant_id) ==
    /\ \A key \in PolicyKeys \cap DOMAIN fwg :
          fwg[key] # NoId => fwg[key] \in DOMAIN firewall_policies_v2
    /\ \E key \in PolicyKeys \cap DOMAIN fwg :
          /\ fwg[key] # NoId
          /\ firewall_policies_v2[fwg[key]].tenant_id # tenant_id
          /\ ~firewall_policies_v2[fwg[key]].shared

\* a create or update of a group, not a default group, whose request names a
\* policy of another project that is not shared
ForeignPrivateRequest ==
    \/ /\ last'.op = "create_firewall_group"
       /\ last'.req.name # DEFAULT_FWG
       /\ NamesForeignPrivate(last'.req, last'.req.tenant_id)
    \/ /\ last'.op = "update_firewall_group"
       /\ last'.id \in DOMAIN firewall_groups_v2
       /\ firewall_groups_v2[last'.id].name # DEFAULT_FWG
       /\ NamesForeignPrivate(last'.req.firewall_group,
                              firewall_groups_v2[last'.id].tenant_id)

----------------------------------------------------------------------------
(* SpecBoot: callers inside _ensure_default_firewall_group at the same time *)

NumCallers == 3

\* the rows of new that old does not hold
AddedRows(new, old) == [i \in DOMAIN new \ DOMAIN old |-> new[i]]

\* the rows a transaction that took the tables from old to new has added
Session(new, old) ==
    [fwr |-> AddedRows(new.fwr, old.fwr),
     fwp |-> AddedRows(new.fwp, old.fwp),
     fwpra |-> new.fwpra \ old.fwpra,
     fwg |-> AddedRows(new.fwg, old.fwg),
     dfwg |-> new.dfwg \ old.dfwg]

\* caller c moves on; the tables stay
Moves(c, call) ==
    /\ calls' = [calls EXCEPT ![c] = call]
    /\ UNCHANGED <<tables, last>>

\* exists = self._get_default_fwg_id(context, tenant_id); if exists: return
EnsureCheck(c, tenant_id) ==
    /\ calls[c].pc = "idle"
    /\ IF _get_default_fwg_id(DB, tenant_id) # NoId
       THEN Moves(c, [Idle EXCEPT !.pc = "done",
                                  !.tenant_id = tenant_id,
                                  !.result = "ok",
                                  !.ret = _get_default_fwg_id(DB, tenant_id)])
       ELSE Moves(c, [Idle EXCEPT !.pc = "transaction",
                                  !.tenant_id = tenant_id,
                                  !.raced = TRUE])

\* the outcome txn of the block inside autonested_transaction: an exception
\* other than DBDuplicateEntry leaves the function, else the rows wait for
\* the flush at the end of the block
Transacted(c, txn) ==
    IF txn.result # "ok"
    THEN Moves(c, [calls[c] EXCEPT !.pc = "done", !.result = txn.result])
    ELSE Moves(c, [calls[c] EXCEPT !.pc = "commit",
                                   !.ret = txn.ret,
                                   !.session = Session(txn.db, DB)])

EnsureTransaction(c) ==
    /\ calls[c].pc = "transaction"
    /\ Transacted(c, _default_fwg_transaction(DB, calls[c].tenant_id))

\* the end of the block: the marker row of a project that has one already
\* raises DBDuplicateEntry and the session's rows are dropped; else they
\* are committed
EnsureCommit(c) ==
    /\ calls[c].pc = "commit"
    /\ IF _marker_conflict(DB, calls[c].tenant_id)
       THEN Moves(c, [calls[c] EXCEPT !.pc = "reread",
                                      !.ret = NoId,
                                      !.session = NoSession])
       ELSE /\ firewall_rules_v2' = firewall_rules_v2 @@ calls[c].session.fwr
            /\ firewall_policies_v2' =
                   firewall_policies_v2 @@ calls[c].session.fwp
            /\ firewall_policy_rule_associations_v2' =
                   firewall_policy_rule_associations_v2 \cup calls[c].session.fwpra
            /\ firewall_groups_v2' = firewall_groups_v2 @@ calls[c].session.fwg
            /\ default_firewall_groups' =
                   default_firewall_groups \cup calls[c].session.dfwg
            /\ calls' = [calls EXCEPT ![c].pc = "done",
                                      ![c].result = "ok",
                                      ![c].session = NoSession]
            /\ UNCHANGED <<firewall_group_port_associations_v2, last>>

\* except db_exc.DBDuplicateEntry: return self._get_default_fwg_id(...)
EnsureReread(c) ==
    /\ calls[c].pc = "reread"
    /\ Moves(c, [calls[c] EXCEPT
                    !.pc = "done",
                    !.result = "ok",
                    !.ret = _get_default_fwg_id(DB, calls[c].tenant_id)])

Callers == 1..NumCallers

BootInit ==
    /\ TablesAre(EmptyDB)
    /\ calls = [c \in Callers |-> Idle]
    /\ last = NoCall

BootNext ==
    \/ \E c \in Callers, tenant_id \in Tenants : EnsureCheck(c, tenant_id)
    \/ \E c \in Callers : EnsureTransaction(c)
    \/ \E c \in Callers : EnsureCommit(c)
    \/ \E c \in Callers : EnsureReread(c)

SpecBoot == BootInit /\ [][BootNext]_vars

\* the default groups and the marker rows of a project
DefaultGroupsOf(tenant_id) ==
    {g \in DOMAIN firewall_groups_v2 :
        /\ firewall_groups_v2[g].tenant_id = tenant_id
        /\ firewall_groups_v2[g].name = DEFAULT_FWG}

MarkersOf(tenant_id) ==
    {m \in default_firewall_groups : m.project_id = tenant_id}

\* C2: when two callers that entered the bootstrap of one project while it
\* had no default group have both returned, the tables hold exactly one
\* default group and one marker row of the project, and both callers have
\* the id of that group.
C2_ConcurrentBootstrap ==
    \A c, d \in Callers :
        (/\ c # d
         /\ calls[c].pc = "done" /\ calls[d].pc = "done"
         /\ calls[c].raced /\ calls[d].raced
         /\ calls[c].tenant_id = calls[d].tenant_id)
        => /\ Cardinality(DefaultGroupsOf(calls[c].tenant_id)) = 1
           /\ Cardinality(MarkersOf(calls[c].tenant_id)) = 1
           /\ calls[c].result = "ok" /\ calls[d].result = "ok"
           /\ calls[c].ret = calls[d].ret
           /\ calls[c].ret \in DefaultGroupsOf(calls[c].tenant_id)

\* C13: a caller that entered the bootstrap of a project while it had no
\* default group, whoever of the callers creates the group, returns with no
\* exception and with the id of the project's default group.
C13_LoserReturnsGroup ==
    \A c \in Callers :
        (calls[c].pc = "done" /\ calls[c].raced)
        => /\ calls[c].result = "ok"
           /\ calls[c].ret \in DefaultGroupsOf(calls[c].tenant_id)

\* the rules, the policies and the groups of a project
RulesOf(tenant_id) ==
    {r \in DOMAIN firewall_rules_v2 : firewall_rules_v2[r].tenant_id = tenant_id}

PoliciesOf(tenant_id) ==
    {p \in DOMAIN firewall_policies_v2 :
        firewall_policies_v2[p].tenant_id = tenant_id}

GroupsOf(tenant_id) ==
    {g \in DOMAIN firewall_groups_v2 :
        firewall_groups_v2[g].tenant_id = tenant_id}

\* rule r is a default rule of the given ip version and action
IsDefaultRule(r, ip_version, action) ==
    /\ r \in DOMAIN firewall_rules_v2
    /\ ~firewall_rules_v2[r].shared
    /\ firewall_rules_v2[r].enabled
    /\ firewall_rules_v2[r].protocol = None
    /\ firewall_rules_v2[r].ip_version = ip_version
    /\ firewall_rules_v2[r].action = action

\* policy p holds two default rules of the action, ipv4 then ipv6
IsDefaultPolicy(p, name, action) ==
    /\ p \in DOMAIN firewall_policies_v2
    /\ firewall_policies_v2[p].name = name
    /\ Len(ObservedRules(p)) = 2
    /\ IsDefaultRule(ObservedRules(p)[1], IP_VERSION_4, action)
    /\ IsDefaultRule(ObservedRules(p)[2], IP_VERSION_6, action)

\* the project holds no row at all
NothingOf(tenant_id) ==
    /\ RulesOf(tenant_id) = {} /\ PoliciesOf(tenant_id) = {}
    /\ GroupsOf(tenant_id) = {} /\ MarkersOf(tenant_id) = {}

\* the project holds the rows of one bootstrap, all of them and no other
BootstrapOf(tenant_id) ==
    \E g \in GroupsOf(tenant_id) :
        Let(firewall_groups_v2[g], LAMBDA fwg_db :
            /\ GroupsOf(tenant_id) = {g}
            /\ fwg_db.name = DEFAULT_FWG
            /\ MarkersOf(tenant_id) =
                   {[project_id |-> tenant_id, firewall_group_id |-> g]}
            /\ \A a \in firewall_group_port_associations_v2 :
                   a.firewall_group_id # g
            /\ fwg_db.ingress_firewall_policy_id # fwg_db.egress_firewall_policy_id
            /\ PoliciesOf(tenant_id) = {fwg_db.ingress_firewall_policy_id,
                                        fwg_db.egress_firewall_policy_id}
            /\ IsDefaultPolicy(fwg_db.ingress_firewall_policy_id,
                               DEFAULT_FWP_INGRESS, FWAAS_DENY)
            /\ IsDefaultPolicy(fwg_db.egress_firewall_policy_id,
                               DEFAULT_FWP_EGRESS, FWAAS_ALLOW)
            /\ RulesOf(tenant_id) =
                   Range(ObservedRules(fwg_db.ingress_firewall_policy_id))
                   \cup Range(ObservedRules(fwg_db.egress_firewall_policy_id))
            /\ Cardinality(RulesOf(tenant_id)) = 4)

\* C31: in every state the tables hold, for each project, either no row or
\* the rows of one whole bootstrap: four enabled rules with no protocol that
\* are not shared, an ingress policy whose list is the ipv4 and the ipv6
\* deny rule, an egress policy whose list is the ipv4 and the ipv6 allow
\* rule, one default group on these two policies with no port, and the
\* marker row of the project naming that group.
C31_AtomicBootstrap ==
    \A tenant_id \in Tenants : NothingOf(tenant_id) \/ BootstrapOf(tenant_id)

\* the bootstrap of one project is committed while a caller of the other
\* project has its rows in a session that is not committed
C31_Witness ==
    \E c, d \in Callers :
        /\ calls[c].pc = "done" /\ calls[c].result = "ok" /\ calls[c].raced
        /\ BootstrapOf(calls[c].tenant_id)
        /\ calls[d].pc = "commit"
        /\ calls[d].tenant_id # calls[c].tenant_id
        /\ DOMAIN calls[d].session.fwg # {}
        /\ NothingOf(calls[d].tenant_id)

\* C40: once a caller's bootstrap of a project has come to its end, by
\* the marker conflict or otherwise, the caller's session holds no row and
\* the project has exactly four rules, two policies and one default group,
\* however many callers ran the bootstrap of the project.
C40_LoserLeavesNoRow ==
    \A c \in Callers :
        (calls[c].pc \in {"reread", "done"})
        => /\ calls[c].session = NoSession
           /\ Cardinality(RulesOf(calls[c].tenant_id)) = 4
           /\ Cardinality(PoliciesOf(calls[c].tenant_id)) = 2
           /\ Cardinality(GroupsOf(calls[c].tenant_id)) = 1
           /\ Cardinality(DefaultGroupsOf(calls[c].tenant_id)) = 1

\* a caller's commit met the marker row of another caller, after every
\* caller ran the block of the bootstrap of one project
C40_Witness ==
    \E c \in Callers :
        /\ calls[c].pc = "reread"
        /\ \A d \in Callers :
              /\ calls[d].raced
              /\ calls[d].tenant_id = calls[c].tenant_id
              /\ calls[d].pc \in {"reread", "done"}
        /\ Cardinality(RulesOf(calls[c].tenant_id)) = 4

----------------------------------------------------------------------------
(* SpecPorts: the ports of groups, with updates of several sessions open *)

\* the sessions that run update_firewall_group statement by statement
NumSessions == 2

\* the ports of the network; a group is created while there are fewer groups
\* than ports, so that every port can be held by a group of its own
PortIds == {1, 2}

\* the port lists of the requests: the lists of distinct ports and a list
\* that names a port twice
PortLists == Lists(PortIds) \cup {<<1, 1>>}

\* the context of an administrator
Admin == [is_admin |-> TRUE, tenant_id |-> "A"]

\* the requests of update_firewall_group that carry ports
PortUpdates ==
    {[context |-> User, firewall_group |-> [ports |-> l]] : l \in PortLists}

\* a session with no statement run
PortIdle == [pc |-> "idle", op |-> None, id |-> NoId, req |-> NoRet, locked |-> {},
             deleted |-> {}, added |-> {}, row |-> NoRet, ret |-> NoRet,
             session |-> NoSession]

\* the ports whose rows the open transactions of the sessions other than c
\* have deleted or added, and the groups whose row they have updated: a
\* statement on one of them waits for the end of that transaction
PortsLocked(c) == UNION {calls[d].locked : d \in DOMAIN calls \ {c}}

GroupsLocked(c) == {calls[d].id : d \in DOMAIN calls \ {c}} \ {NoId}

PortsOf(db, id) == {a.port_id : a \in {b \in db.fwgpa : b.firewall_group_id = id}}

\* the statements of update_firewall_group run in the transaction of
\* session c: an exception rolls it back, else the rows wait for the commit
UpdateStatements(c, req, id) ==
    /\ calls[c].pc = "idle"
    /\ id \notin GroupsLocked(c)
    /\ (PortsOf(DB, id) \cup Range(req.firewall_group.ports))
           \cap PortsLocked(c) = {}
    /\ Let(update_firewall_group(DB, req.context, id, req.firewall_group),
           LAMBDA o :
           IF o.result # "ok"
           THEN /\ last' = [op |-> "update_firewall_group", id |-> id,
                            req |-> req, result |-> o.result, ret |-> o.ret]
                /\ UNCHANGED <<tables, calls>>
           ELSE /\ calls' = [calls EXCEPT ![c] =
                      [pc |-> "commit", op |-> "update_firewall_group",
                       id |-> id, req |-> req,
                       locked |-> PortsOf(DB, id)
                                  \cup Range(req.firewall_group.ports),
                       deleted |-> DB.fwgpa \ o.db.fwgpa,
                       added |-> o.db.fwgpa \ DB.fwgpa,
                       row |-> o.db.fwg[id], ret |-> o.ret,
                       session |-> NoSession]]
                /\ UNCHANGED <<tables, last>>)

\* the transaction of session c commits
UpdateCommit(c) ==
    /\ calls[c].pc = "commit"
    /\ firewall_group_port_associations_v2' =
           (firewall_group_port_associations_v2 \ calls[c].deleted)
               \cup calls[c].added
    /\ firewall_groups_v2' =
           [firewall_groups_v2 EXCEPT ![calls[c].id] = calls[c].row]
    /\ last' = [op |-> calls[c].op, id |-> calls[c].id,
                req |-> calls[c].req, result |-> "ok", ret |-> calls[c].ret]
    /\ calls' = [calls EXCEPT ![c] = PortIdle]
    /\ UNCHANGED <<firewall_rules_v2, firewall_policies_v2,
                   firewall_policy_rule_associations_v2,
                   default_firewall_groups>>

PortsInit ==
    /\ TablesAre(GroupsDB)
    /\ calls = [c \in 1..NumSessions |-> PortIdle]
    /\ last = NoCall

PortsNext ==
    \/ \E l \in PortLists :
          /\ Cardinality(UserGroups) < Cardinality(PortIds)
          /\ Range(l) \cap PortsLocked(0) = {}
          /\ CreateFirewallGroup(
                 [GroupRequest("A", NoId, NoId) EXCEPT !.ports = l])
    \/ \E c \in DOMAIN calls, req \in PortUpdates,
          id \in DOMAIN firewall_groups_v2 : UpdateStatements(c, req, id)
    \/ \E c \in DOMAIN calls : UpdateCommit(c)
    \/ \E id \in DOMAIN firewall_groups_v2 :
          /\ id \notin GroupsLocked(0)
          /\ PortsOf(DB, id) \cap PortsLocked(0) = {}
          /\ DeleteFirewallGroup(User, id)

SpecPorts == PortsInit /\ [][PortsNext]_vars

\* C11: in every state no port is bound to two groups: two rows of the port
\* table with one port id are rows of one group.
C11_PortInOneGroup ==
    \A a, b \in firewall_group_port_associations_v2 :
        a.port_id = b.port_id => a.firewall_group_id = b.firewall_group_id

\* a port that another group holds was refused while the ports are bound to
\* two groups and another session has an update open
C11_Witness ==
    /\ last.result = "FirewallGroupPortInUse"
    /\ Cardinality({a.firewall_group_id :
                       a \in firewall_group_port_associations_v2}) = 2
    /\ \E c \in DOMAIN calls : calls[c].pc = "commit"

\* a step that is a call of create_firewall_group, or a call of
\* update_firewall_group that ends in its statements
PortCall ==
    /\ calls' = calls
    /\ last'.op \in {"create_firewall_group", "update_firewall_group"}

\* the ports the call asks for
RequestedPorts ==
    IF last'.op = "create_firewall_group" THEN last'.req.ports
    ELSE last'.req.firewall_group.ports

\* the ports bound, before the call, to a group other than the one the call
\* updates
BoundElsewhere ==
    {a.port_id : a \in {b \in firewall_group_port_associations_v2 :
        last'.op = "update_firewall_group" => b.firewall_group_id # last'.id}}

----------------------------------------------------------------------------
(* SpecStatus: update_firewall_group_status of several sessions *)

ACTIVE == "ACTIVE"

\* the statuses the callers write, and the lists of statuses they exclude
\* (None is the empty list)
Statuses == {ACTIVE, PENDING_DELETE}

NotIns == {{}, {PENDING_DELETE}, {ACTIVE, PENDING_DELETE}}

\* the UPDATE of update_firewall_group_status run in the transaction of
\* session c; the row it matched is written when the transaction commits
StatusStatement(c, id, status, not_in) ==
    /\ calls[c].pc = "idle"
    /\ id \notin GroupsLocked(c)
    /\ Let(update_firewall_group_status(DB, id, status, not_in), LAMBDA o :
           IF id \notin DOMAIN firewall_groups_v2
           THEN /\ last' = [op |-> "update_firewall_group_status", id |-> id,
                            req |-> [status |-> status, not_in |-> not_in],
                            result |-> o.result, ret |-> o.ret]
                /\ UNCHANGED <<tables, calls>>
           ELSE /\ calls' = [calls EXCEPT ![c] =
                      [pc |-> "commit", op |-> "update_firewall_group_status",
                       id |-> id,
                       req |-> [status |-> status, not_in |-> not_in],
                       locked |-> {}, deleted |-> {}, added |-> {},
                       row |-> o.db.fwg[id], ret |-> o.ret,
                       session |-> NoSession]]
                /\ UNCHANGED <<tables, last>>)

StatusInit ==
    /\ TablesAre(GroupsDB)
    /\ calls = [c \in 1..NumSessions |-> PortIdle]
    /\ last = NoCall

StatusNext ==
    \/ \E c \in DOMAIN calls, id \in 1..3, status \in Statuses,
          not_in \in NotIns : StatusStatement(c, id, status, not_in)
    \/ \E c \in DOMAIN calls : UpdateCommit(c)

SpecStatus == StatusInit /\ [][StatusNext]_vars

\* the step ends a call of update_firewall_group_status on a group
StatusUpdated ==
    /\ last'.op = "update_firewall_group_status"
    /\ last'.id \in DOMAIN firewall_groups_v2
    /\ \/ last' # last
       \/ \E c \in DOMAIN calls : calls[c].pc = "commit" /\ calls'[c].pc = "idle"

\* C12: update_firewall_group_status(id, s, not_in) leaves the group with
\* status s, one row counted, exactly when the status the group has as the
\* update is applied is not in not_in, and leaves the row as it was, no row
\* counted, when it is; no other group changes.  A status that a session
\* wrote is thus never replaced by an update that excludes it.
C12_ConditionalStatus ==
    [][StatusUpdated =>
        /\ IF firewall_groups_v2[last'.id].status \notin last'.req.not_in
           THEN /\ firewall_groups_v2'[last'.id] =
                      [firewall_groups_v2[last'.id] EXCEPT
                          !.status = last'.req.status]
                /\ last'.ret.count = 1
           ELSE /\ firewall_groups_v2'[last'.id] = firewall_groups_v2[last'.id]
                /\ last'.ret.count = 0
        /\ \A g \in DOMAIN firewall_groups_v2 \ {last'.id} :
              firewall_groups_v2'[g] = firewall_groups_v2[g]
    ]_vars

\* an update found the group in a status it excludes, written by an earlier
\* update, while another session had an update open
C12_Witness ==
    /\ last.op = "update_firewall_group_status"
    /\ last.ret = [count |-> 0]
    /\ last.id \in DOMAIN firewall_groups_v2
    /\ firewall_groups_v2[last.id].status = PENDING_DELETE
    /\ last.req.status = ACTIVE
    /\ \E c \in DOMAIN calls : calls[c].pc = "commit"

----------------------------------------------------------------------------
(* SpecDefault: the default groups under group operations of users and *)
(* administrators                                                       *)

\* the rules the bootstraps may have created when a group is created
MaxDefaultRules == 8

\* policy 1 is a policy of project B that is not shared
DefaultDB ==
    create_firewall_policy(EmptyDB, PolicyRequest("B", FALSE, FALSE, <<>>)).db

\* the requests of update_firewall_group: a name, and what the plugin passes
\* for a group that is being deleted, with a name or without
DefaultUpdates ==
    {[name |-> "fwg"],
     [name |-> DEFAULT_FWG],
     [status |-> PENDING_DELETE],
     [status |-> PENDING_DELETE, name |-> "fwg"]}

DefaultInit == TablesAre(DefaultDB) /\ calls = <<>> /\ last = NoCall

DefaultNext ==
    \/ \E tenant_id \in Tenants, ingress \in {NoId, 1} :
          /\ Cardinality(UserGroups) < MaxGroups
          /\ Cardinality(DOMAIN firewall_rules_v2) < MaxDefaultRules
          /\ CreateFirewallGroup(GroupRequest(tenant_id, ingress, NoId))
    \/ \E context \in {User, Admin}, id \in DOMAIN firewall_groups_v2,
          fwg \in DefaultUpdates : UpdateFirewallGroup(context, id, fwg)
    \/ \E context \in {User, Admin}, id \in DOMAIN firewall_groups_v2 :
          DeleteFirewallGroup(context, id)

SpecDefault == DefaultInit /\ [][DefaultNext]_vars

\* C14: in every state each project has at most one default group and at
\* most one marker row, it has a marker row exactly when it has a default
\* group, and the marker row names that group.
C14_MarkerIsDefaultGroup ==
    \A tenant_id \in Tenants :
        /\ Cardinality(DefaultGroupsOf(tenant_id)) <= 1
        /\ Cardinality(MarkersOf(tenant_id)) <= 1
        /\ (MarkersOf(tenant_id) # {}) <=> (DefaultGroupsOf(tenant_id) # {})
        /\ \A m \in MarkersOf(tenant_id) :
              m.firewall_group_id \in DefaultGroupsOf(tenant_id)

\* C15: a call that ends with an exception leaves every table as it was
\* before the call.
C15_ErrorChangesNothing ==
    [][(last'.op # None /\ last'.result # "ok") => UNCHANGED tables]_vars

\* C39: every group a call adds to firewall_groups_v2, the group asked for
\* and the default group of the bootstrap alike, starts with the status
\* PENDING_CREATE, or CREATED when routers are distributed.
C39_InitialStatus ==
    [][\A g \in DOMAIN firewall_groups_v2' \ DOMAIN firewall_groups_v2 :
          firewall_groups_v2'[g].status =
              IF router_distributed THEN CREATED ELSE PENDING_CREATE
    ]_vars

----------------------------------------------------------------------------
(* SpecLock: insert_rule and remove_rule of two sessions on one policy *)

\* policy 1 holds rule 1; rules 2..NumRules are not in it
LockDB == insert_rule(InsertDB, 1, [firewall_rule_id |-> 1]).db

\* the calls of a session: an insert of a rule at the top, before or after
\* rule 1, or the removal of a rule
LockCalls ==
    {[op |-> "insert_rule", req |-> rule_info] :
        rule_info \in
            {[firewall_rule_id |-> r] : r \in 2..NumRules}
            \cup {[firewall_rule_id |-> r, insert_before |-> 1] : r \in 2..NumRules}
            \cup {[firewall_rule_id |-> r, insert_after |-> 1] : r \in 2..NumRules}}
    \cup {[op |-> "remove_rule", req |-> [firewall_rule_id |-> r]] :
             r \in 1..2}

\* a session that has made no call
LockIdle == [pc |-> "idle", op |-> None, req |-> NoRet, position |-> 0,
             result |-> None, session |-> NoSession]

\* the checks and reads of call.op for its request, or the call from its
\* first line to its return
LockPosition(db, call) ==
    IF call.op = "insert_rule" THEN _insert_rule_position(db, 1, call.req)
    ELSE _remove_rule_position(db, 1, call.req)

LockCall(db, call) ==
    IF call.op = "insert_rule" THEN insert_rule(db, 1, call.req)
    ELSE remove_rule(db, 1, call.req)

\* session c runs the call up to _process_rule_for_policy: no row is locked
\* yet
LockRead(c, call) ==
    /\ calls[c].pc = "idle"
    /\ Let(LockPosition(DB, call), LAMBDA asked :
           calls' = [calls EXCEPT ![c] =
               IF asked.result # "ok"
               THEN [LockIdle EXCEPT !.pc = "done", !.op = call.op,
                                     !.req = call.req, !.result = asked.result]
               ELSE [LockIdle EXCEPT !.pc = "process", !.op = call.op,
                                     !.req = call.req,
                                     !.position = asked.ret.position]])
    /\ UNCHANGED <<tables, last>>

\* session c runs _process_rule_for_policy: it locks the policy row, changes
\* the list and commits, which releases the lock
LockProcess(c) ==
    /\ calls[c].pc = "process"
    /\ Let(_process_rule_for_policy(DB, 1, calls[c].req.firewall_rule_id,
                                    calls[c].position), LAMBDA o :
           /\ Commit(o.db)
           /\ calls' = [calls EXCEPT ![c].pc = "done", ![c].result = o.result])
    /\ UNCHANGED last

LockInit ==
    /\ TablesAre(LockDB)
    /\ calls = [c \in 1..2 |-> LockIdle]
    /\ last = NoCall

LockNext ==
    \/ \E c \in 1..2, call \in LockCalls : LockRead(c, call)
    \/ \E c \in 1..2 : LockProcess(c)

SpecLock == LockInit /\ [][LockNext]_vars

\* the calls of the sessions run one after the other, first's first, end as
\* they did and leave the rows of the policy that are there
SerialAgrees(first, second) ==
    Let(LockCall(LockDB, calls[first]), LAMBDA a :
    Let(LockCall(a.db, calls[second]), LAMBDA b :
        /\ a.result = calls[first].result
        /\ b.result = calls[second].result
        /\ b.db.fwpra = firewall_policy_rule_associations_v2))

\* C16: when two sessions that called insert_rule or remove_rule on one
\* policy at the same time have both returned, the outcome of each call and
\* the rows of the policy are those of the two calls run one after the other
\* in one of the two orders.
C16_Serialized ==
    (calls[1].pc = "done" /\ calls[2].pc = "done")
    => (SerialAgrees(1, 2) \/ SerialAgrees(2, 1))

----------------------------------------------------------------------------
(* SpecAudit: the audited flag of policies that share rules *)

\* the rules and the policies, all of project A
AuditRuleIds == {1, 2}
AuditRules == Cardinality(AuditRuleIds)
AuditPolicies == 2

\* db after n audited policies with no rule are created
RECURSIVE WithPolicies(_, _)
WithPolicies(db, n) ==
    IF n = 0 THEN db
    ELSE WithPolicies(
             create_firewall_policy(db, PolicyRequest("A", FALSE, TRUE, <<>>)).db,
             n - 1)

AuditDB ==
    WithPolicies(WithRules(EmptyDB, AuditRules, RuleRequest("A", FALSE)),
                 AuditPolicies)

\* the requests of update_firewall_policy that replace the rule list, with
\* and without the audited field
AuditBulkSets ==
    {[firewall_rules |-> <<2, 1>>], [firewall_rules |-> <<>>],
     [firewall_rules |-> <<2, 1>>, audited |-> TRUE],
     [firewall_rules |-> <<1>>, audited |-> TRUE]}

AuditInit == TablesAre(AuditDB) /\ calls = <<>> /\ last = NoCall

AuditNext ==
    \/ \E id \in 1..AuditPolicies, r \in 1..(AuditRules + 1) :
          InsertRule(id, [firewall_rule_id |-> r])
    \/ \E id \in 1..AuditPolicies, r \in 1..(AuditRules + 1) :
          RemoveRule(id, [firewall_rule_id |-> r])
    \/ \E r \in 1..(AuditRules + 1) :
          UpdateFirewallRule(r, [name |-> "fwr"])
    \/ \E id \in 1..AuditPolicies :
          UpdateFirewallPolicy(id, [audited |-> TRUE])
    \/ \E id \in 1..AuditPolicies, fwp \in AuditBulkSets :
          UpdateFirewallPolicy(id, fwp)

SpecAudit == AuditInit /\ [][AuditNext]_vars

\* C17: a successful insert_rule or remove_rule leaves the policy with
\* audited = false, in its row and in the policy returned.
C17_OrderChangeClearsAudited ==
    [][(last'.op \in {"insert_rule", "remove_rule"} /\ last'.result = "ok")
       => /\ ~firewall_policies_v2'[last'.id].audited
          /\ ~last'.ret.audited
    ]_vars

\* a rule was removed from a policy, which is not audited, while the other
\* policies, audited, hold rules: policies with rules get audited again
C17_Witness ==
    /\ last.op = "remove_rule" /\ last.result = "ok"
    /\ ~firewall_policies_v2[last.id].audited
    /\ \A p \in DOMAIN firewall_policies_v2 \ {last.id} :
          /\ firewall_policies_v2[p].audited
          /\ _get_rules_in_policy(DB, p) # {}

\* C18: a successful update_firewall_rule leaves every policy that holds
\* the rule with audited = false, and the audited flag of every other policy
\* as it was.
C18_RuleUpdateClearsAudited ==
    [][(last'.op = "update_firewall_rule" /\ last'.result = "ok")
       => \A p \in DOMAIN firewall_policies_v2 :
             IF last'.id \in _get_rules_in_policy(DB, p)
             THEN ~firewall_policies_v2'[p].audited
             ELSE firewall_policies_v2'[p] = firewall_policies_v2[p]
    ]_vars

\* a rule that every policy holds was updated and no policy is audited
C18_Witness ==
    /\ last.op = "update_firewall_rule" /\ last.result = "ok"
    /\ Cardinality(_get_policies_with_rule(DB, last.id)) = AuditPolicies
    /\ \A p \in DOMAIN firewall_policies_v2 :
          /\ ~firewall_policies_v2[p].audited
          /\ Len(ObservedRules(p)) = AuditRules

\* C38: a successful update_firewall_policy that carries firewall_rules
\* (the bulk set of the rule list) leaves the policy with audited = false,
\* in its row and in the policy returned.
C38_BulkSetClearsAudited ==
    [][(/\ last'.op = "update_firewall_policy" /\ last'.result = "ok"
        /\ Has(last'.req, "firewall_rules"))
       => /\ ~firewall_policies_v2'[last'.id].audited
          /\ ~last'.ret.audited
    ]_vars

----------------------------------------------------------------------------
(* SpecFields: the protocol, the ports, the ip version and the addresses *)
(* of one rule under create_firewall_rule and update_firewall_rule       *)

PROTO_NAME_ICMP == "icmp"

FieldProtocols == {None, PROTO_NAME_TCP, PROTO_NAME_ICMP}
FieldPorts == {NoRange, <<80>>}
FieldVersions == {IP_VERSION_4, IP_VERSION_6}
FieldSources == {None, "10.0.0.0/24", "fe80::1"}
FieldDestinations == {None, "2001:db8::/32"}

\* the requests of create_firewall_rule
FieldCreates ==
    {[RuleRequest("A", FALSE) EXCEPT !.protocol = protocol,
                                     !.source_port = source_port,
                                     !.destination_port = destination_port,
                                     !.ip_version = ip_version,
                                     !.source_ip_address = source_ip_address] :
        protocol \in FieldProtocols, source_port \in FieldPorts,
        destination_port \in FieldPorts, ip_version \in FieldVersions,
        source_ip_address \in FieldSources}

\* the requests of update_firewall_rule: one field, or the protocol with a
\* port, or the ip version with an address
FieldUpdates ==
    {[protocol |-> protocol] : protocol \in FieldProtocols}
    \cup {[source_port |-> port] : port \in FieldPorts}
    \cup {[destination_port |-> port] : port \in FieldPorts}
    \cup {[protocol |-> protocol, destination_port |-> port] :
             protocol \in FieldProtocols, port \in FieldPorts}
    \cup {[ip_version |-> ip_version] : ip_version \in FieldVersions}
    \cup {[source_ip_address |-> address] : address \in FieldSources}
    \cup {[destination_ip_address |-> address] : address \in FieldDestinations}
    \cup {[ip_version |-> ip_version, source_ip_address |-> address] :
             ip_version \in FieldVersions, address \in FieldSources}

FieldsInit == TablesAre(EmptyDB) /\ calls = <<>> /\ last = NoCall

\* one rule is created, then updated
FieldsNext ==
    \/ \E fwr \in FieldCreates :
          /\ firewall_rules_v2 = <<>>
          /\ CreateFirewallRule(fwr)
    \/ \E id \in DOMAIN firewall_rules_v2, fwr \in FieldUpdates :
          UpdateFirewallRule(id, fwr)

SpecFields == FieldsInit /\ [][FieldsNext]_vars

\* the row a rule call is about: none for a create
StoredRule == IF last'.id \in DOMAIN firewall_rules_v2
              THEN firewall_rules_v2[last'.id] ELSE NoRow

\* the protocol and the port ranges of the rule that would result from the
\* request of the call: the fields of the request laid over the stored ones
ResultingProtocol ==
    IF StoredRule = NoRow THEN last'.req.protocol
    ELSE Get(last'.req, "protocol", StoredRule.protocol)

ResultingPorts ==
    IF StoredRule = NoRow
    THEN {last'.req.source_port, last'.req.destination_port}
    ELSE {Get(last'.req, "source_port",
              _make_firewall_rule_dict(StoredRule).source_port),
          Get(last'.req, "destination_port",
              _make_firewall_rule_dict(StoredRule).destination_port)}

RuleCall ==
    /\ last'.op \in {"create_firewall_rule", "update_firewall_rule"}
    /\ last'.op = "update_firewall_rule" => last'.id \in DOMAIN firewall_rules_v2

\* C22: a create_firewall_rule or update_firewall_rule whose resulting rule
\* would have no protocol and a source or destination port fails with
\* FirewallRuleInvalidICMPParameter or
\* FirewallRuleWithPortWithoutProtocolInvalid and no table changes.
C22_PortNeedsProtocol ==
    [][(/\ RuleCall
        /\ ResultingProtocol = None
        /\ ResultingPorts # {NoRange})
       => /\ last'.result \in {"FirewallRuleInvalidICMPParameter",
                               "FirewallRuleWithPortWithoutProtocolInvalid"}
          /\ UNCHANGED tables
    ]_vars

\* an update that clears the protocol, and names no port, of a rule that is
\* stored with a port was refused
C22_Witness ==
    /\ last.op = "update_firewall_rule"
    /\ last.req = [protocol |-> None]
    /\ last.result = "FirewallRuleWithPortWithoutProtocolInvalid"
    /\ firewall_rules_v2[last.id].protocol = PROTO_NAME_TCP
    /\ firewall_rules_v2[last.id].destination_port_range_min # NoInt

\* C23: in every state a stored rule that carries a source or destination
\* port range has the protocol tcp or udp.
C23_PortsHaveTransport ==
    \A r \in DOMAIN firewall_rules_v2 :
        (\/ firewall_rules_v2[r].source_port_range_min # NoInt
         \/ firewall_rules_v2[r].destination_port_range_min # NoInt)
        => firewall_rules_v2[r].protocol \in {PROTO_NAME_TCP, PROTO_NAME_UDP}

\* C24: in every state the source and destination addresses of a stored rule
\* with an ip version are addresses of that version.
C24_AddressesOfVersion ==
    \A r \in DOMAIN firewall_rules_v2 :
        firewall_rules_v2[r].ip_version # NoInt
        => /\ (firewall_rules_v2[r].source_ip_address # None
               => IPNetwork_version(firewall_rules_v2[r].source_ip_address)
                      = firewall_rules_v2[r].ip_version)
           /\ (firewall_rules_v2[r].destination_ip_address # None
               => IPNetwork_version(firewall_rules_v2[r].destination_ip_address)
                      = firewall_rules_v2[r].ip_version)

----------------------------------------------------------------------------
(* SpecProtect: deletes and updates of the rules, policies and groups of a *)
(* project that has its default group                                       *)

\* project A after its default group is created: rules 1 to 4, the ingress
\* policy 1, the egress policy 2, group 1 and its marker row
ProtectDB == _ensure_default_firewall_group(EmptyDB, "A").db

\* the requests of update_firewall_group: a name, the shared flag, and what
\* the plugin passes for a group that is being deleted, without its ingress
\* policy
ProtectUpdates ==
    {[name |-> "fwg"],
     [shared |-> TRUE],
     [status |-> PENDING_DELETE, ingress_firewall_policy_id |-> NoId]}

\* the ids of the groups that calls name: no group ever has the last one
ProtectGroupIds == 1..(Cardinality(PortIds) + 2)

\* the rule that the rule calls name: the first default rule
ProtectRules == {_create_default_firewall_rules(EmptyDB, "A").ret.in_ipv4}

\* the policy that the group requests name: the default ingress policy
ProtectPolicies == {q \in DOMAIN ProtectDB.fwp : ProtectDB.fwp[q].name = DEFAULT_FWP_INGRESS}

ProtectInit == TablesAre(ProtectDB) /\ calls = <<>> /\ last = NoCall

\* groups are created while the project has its default group
ProtectNext ==
    \/ \E ingress \in ProtectPolicies \cup {NoId}, port \in PortIds :
          /\ Cardinality(UserGroups) < Cardinality(PortIds)
          /\ _get_default_fwg_id(DB, "A") # NoId
          /\ CreateFirewallGroup(
                 [GroupRequest("A", ingress, NoId) EXCEPT !.ports = <<port>>])
    \/ \E context \in {User, Admin}, id \in DOMAIN firewall_groups_v2,
          fwg \in ProtectUpdates : UpdateFirewallGroup(context, id, fwg)
    \/ \E context \in {User, Admin}, id \in ProtectGroupIds :
          DeleteFirewallGroup(context, id)
    \/ \E id \in DOMAIN firewall_policies_v2 :
          UpdateFirewallPolicy(id, [name |-> "fwp"])
    \/ \E id \in DOMAIN firewall_policies_v2 : DeleteFirewallPolicy(id)
    \/ \E id \in ProtectRules : UpdateFirewallRule(id, [name |-> "fwr"])
    \/ \E id \in ProtectRules : DeleteFirewallRule(id)
    \/ \E id \in DOMAIN firewall_policies_v2, r \in ProtectRules :
          RemoveRule(id, [firewall_rule_id |-> r])

SpecProtect == ProtectInit /\ [][ProtectNext]_vars

\* no association row names a missing rule or policy and no group names a
\* missing policy
NoDanglingReference ==
    /\ \A a \in firewall_policy_rule_associations_v2 :
          /\ a.firewall_rule_id \in DOMAIN firewall_rules_v2
          /\ a.firewall_policy_id \in DOMAIN firewall_policies_v2
    /\ \A g \in DOMAIN firewall_groups_v2 :
          /\ firewall_groups_v2[g].ingress_firewall_policy_id
                 \in DOMAIN firewall_policies_v2 \cup {NoId}
          /\ firewall_groups_v2[g].egress_firewall_policy_id
                 \in DOMAIN firewall_policies_v2 \cup {NoId}

\* the rule of the call is held by a policy; the policy of the call is the
\* ingress or egress policy of a group
DeletesRuleInUse ==
    /\ last'.op = "delete_firewall_rule"
    /\ _get_policies_with_rule(DB, last'.id) # {}

DeletesPolicyInUse ==
    /\ last'.op = "delete_firewall_policy"
    /\ \E g \in DOMAIN firewall_groups_v2 :
          last'.id \in {firewall_groups_v2[g].ingress_firewall_policy_id,
                        firewall_groups_v2[g].egress_firewall_policy_id}

\* C21: delete_firewall_rule of a rule that a policy holds fails with
\* FirewallRuleInUse, delete_firewall_policy of a policy that a group names
\* as ingress or egress policy fails with FirewallPolicyInUse, both change no
\* table, and in every state no association row names a missing rule and no
\* group names a missing policy.
C21_DeleteInUse ==
    /\ []NoDanglingReference
    /\ [][/\ DeletesRuleInUse
             => (last'.result = "FirewallRuleInUse" /\ UNCHANGED tables)
          /\ DeletesPolicyInUse
             => (last'.result = "FirewallPolicyInUse" /\ UNCHANGED tables)
       ]_vars

\* the delete of a policy was refused that no default group names any
\* more, that a group of a user names, and from which a rule was removed
C21_Witness ==
    /\ last.op = "delete_firewall_policy"
    /\ last.result = "FirewallPolicyInUse"
    /\ \A g \in DOMAIN firewall_groups_v2 \ UserGroups :
          firewall_groups_v2[g].ingress_firewall_policy_id = NoId
    /\ \E g \in UserGroups :
          firewall_groups_v2[g].ingress_firewall_policy_id = last.id
    /\ Cardinality(_get_rules_in_policy(DB, last.id)) = 1

\* C26: delete_firewall_group of an id that no group has returns without an
\* error and changes no table.
C26_DeleteMissingGroup ==
    [][(/\ last'.op = "delete_firewall_group"
        /\ last'.id \notin DOMAIN firewall_groups_v2)
       => (last'.result = "ok" /\ UNCHANGED tables)
    ]_vars

\* a user's delete of an id that no group ever had has returned, with the
\* groups and their ports there
C26_Witness ==
    /\ last.op = "delete_firewall_group"
    /\ ~last.req.context.is_admin
    /\ last.id \notin DOMAIN ProtectDB.fwg \cup (1..(Cardinality(PortIds) + 1))
    /\ last.result = "ok"
    /\ Cardinality(DOMAIN firewall_groups_v2) = Cardinality(PortIds) + 1
    /\ Cardinality(firewall_group_port_associations_v2) = Cardinality(PortIds)

\* C27: delete_firewall_group of a group that is not named as a default
\* group succeeds for a user and for an administrator, whatever its status:
\* the group and its rows of the port table are gone, and the rules, the
\* policies, their associations, the other groups and their rows of the port
\* table are as before.
C27_DeleteGroup ==
    [][(/\ last'.op = "delete_firewall_group"
        /\ last'.id \in DOMAIN firewall_groups_v2
        /\ firewall_groups_v2[last'.id].name # DEFAULT_FWG)
       => /\ last'.result = "ok"
          /\ firewall_groups_v2' = Drop(firewall_groups_v2, {last'.id})
          /\ firewall_group_port_associations_v2' =
                 {a \in firewall_group_port_associations_v2 :
                     a.firewall_group_id # last'.id}
          /\ UNCHANGED <<firewall_rules_v2, firewall_policies_v2,
                         firewall_policy_rule_associations_v2>>
    ]_vars

\* a user deleted the first group created, which held a port (every group
\* is created with one), and the group created after it holds its port
C27_Witness ==
    /\ last.op = "delete_firewall_group"
    /\ ~last.req.context.is_admin
    /\ last.result = "ok"
    /\ last.id \notin DOMAIN firewall_groups_v2
    /\ \E g \in UserGroups :
          /\ g > last.id
          /\ firewall_groups_v2[g].status = PENDING_DELETE
          /\ PortsOf(DB, g) # {}
    /\ \A a \in firewall_group_port_associations_v2 :
          a.firewall_group_id \in DOMAIN firewall_groups_v2

\* C28: delete_firewall_group of a default group by an administrator
\* succeeds and leaves no row of the group, of its marker, of its two
\* policies and of their associations.
C28_AdminDeletesDefault ==
    [][(/\ last'.op = "delete_firewall_group"
        /\ last'.req.context.is_admin
        /\ last'.id \in DOMAIN firewall_groups_v2
        /\ firewall_groups_v2[last'.id].name = DEFAULT_FWG)
       => LET fwp == {firewall_groups_v2[last'.id].ingress_firewall_policy_id,
                      firewall_groups_v2[last'.id].egress_firewall_policy_id}
          IN  /\ last'.result = "ok"
              /\ last'.id \notin DOMAIN firewall_groups_v2'
              /\ \A m \in default_firewall_groups' :
                    m.firewall_group_id # last'.id
              /\ fwp \cap DOMAIN firewall_policies_v2' = {}
              /\ \A a \in firewall_policy_rule_associations_v2' :
                    a.firewall_policy_id \notin fwp
    ]_vars

\* the errors of a conflict
ConflictErrors ==
    {"FirewallDefaultObjectUpdateRestricted", "FirewallDefaultParameterExists",
     "FirewallGroupCannotRemoveDefault", "FirewallPolicyInUse"}

\* a call of a user on a default group, or a call on a default policy (the
\* policy handlers take no decision on the caller)
OnDefaultGroup ==
    /\ last'.op \in {"update_firewall_group", "delete_firewall_group"}
    /\ ~last'.req.context.is_admin
    /\ last'.id \in DOMAIN firewall_groups_v2
    /\ firewall_groups_v2[last'.id].name = DEFAULT_FWG

OnDefaultPolicy ==
    /\ last'.op \in {"update_firewall_policy", "delete_firewall_policy"}
    /\ last'.id \in DOMAIN firewall_policies_v2
    /\ firewall_policies_v2[last'.id].name
           \in {DEFAULT_FWP_INGRESS, DEFAULT_FWP_EGRESS}

\* C29: an update or delete of a default group by a user, and an update or
\* delete of a default policy, fail with a conflict error and change no
\* table.
C29_DefaultsProtected ==
    [][(OnDefaultGroup \/ OnDefaultPolicy)
       => (last'.result \in ConflictErrors /\ UNCHANGED tables)
    ]_vars

\* C30: an update_firewall_rule or delete_firewall_rule of a default rule
\* fails and leaves the rule as it was (the rule handlers take no decision on
\* the caller).
C30_DefaultRulesProtected ==
    [][(/\ last'.op \in {"update_firewall_rule", "delete_firewall_rule"}
        /\ last'.id \in DOMAIN ProtectDB.fwr \cap DOMAIN firewall_rules_v2)
       => /\ last'.result # "ok"
          /\ last'.id \in DOMAIN firewall_rules_v2'
          /\ firewall_rules_v2'[last'.id] = firewall_rules_v2[last'.id]
    ]_vars

----------------------------------------------------------------------------
(* SpecUnknown: every handler that takes an id, on rows that are there and *)
(* on ids of no row                                                         *)

get_firewall_rule(db, id) ==
    IF id \notin DOMAIN db.fwr THEN Raise(db, "FirewallRuleNotFound")
    ELSE Ok(db, [policies |-> _get_policies_with_rule(db, id),
                 rule |-> _make_firewall_rule_dict(db.fwr[id])])

GetFirewallRule(id) ==
    Call("get_firewall_rule", id, <<>>, get_firewall_rule(DB, id))

GetFirewallGroup(id) ==
    Call("get_firewall_group", id, <<>>, get_firewall_group(DB, id))

UpdateFirewallGroupStatus(id, status, not_in) ==
    Call("update_firewall_group_status", id,
         [status |-> status, not_in |-> not_in],
         update_firewall_group_status(DB, id, status, not_in))

\* rule 1 and policy 1, which holds it, are of project A; group 1 is the
\* default group of project A and group 2 a group of project A on policy 1
UnknownDB ==
    create_firewall_group(
        create_firewall_policy(
            WithRules(EmptyDB, 1, RuleRequest("A", FALSE)),
            PolicyRequest("A", FALSE, FALSE, <<1>>)).db,
        GroupRequest("A", 1, NoId), None).db

\* the id of no row of any table
Missing == 1 + Cardinality(DOMAIN UnknownDB.fwr)

UnknownInit == TablesAre(UnknownDB) /\ calls = <<>> /\ last = NoCall

UnknownNext ==
    \/ \E id \in {1, Missing} : GetFirewallRule(id)
    \/ \E id \in {1, Missing} : UpdateFirewallRule(id, [name |-> "fwr2"])
    \/ \E id \in {1, Missing} : DeleteFirewallRule(id)
    \/ \E id \in {1, Missing} : GetFirewallPolicy(id)
    \/ \E id \in {1, Missing} : UpdateFirewallPolicy(id, [name |-> "fwp2"])
    \/ \E id \in {1, Missing} : DeleteFirewallPolicy(id)
    \/ \E id \in {2, Missing} : GetFirewallGroup(id)
    \/ \E id \in {2, Missing} : UpdateFirewallGroup(User, id, [name |-> "fwg2"])
    \/ \E id \in {2, Missing} : DeleteFirewallGroup(User, id)
    \/ \E id \in {2, Missing} : UpdateFirewallGroupStatus(id, ACTIVE, {})
    \/ \E id \in {1, Missing}, r \in {1, Missing} :
          InsertRule(id, [firewall_rule_id |-> r])
    \/ \E id \in {1, Missing}, r \in {1, Missing} :
          RemoveRule(id, [firewall_rule_id |-> r])

SpecUnknown == UnknownInit /\ [][UnknownNext]_vars

\* the NotFound errors the rows the call names and that are not there
\* account for
NotFoundsOf(call) ==
    IF call.op \in {"get_firewall_rule", "update_firewall_rule",
                    "delete_firewall_rule"}
    THEN IF call.id \in DOMAIN firewall_rules_v2 THEN {}
         ELSE {"FirewallRuleNotFound"}
    ELSE IF call.op \in {"get_firewall_policy", "update_firewall_policy",
                         "delete_firewall_policy"}
    THEN IF call.id \in DOMAIN firewall_policies_v2 THEN {}
         ELSE {"FirewallPolicyNotFound"}
    ELSE IF call.op \in {"get_firewall_group", "update_firewall_group",
                         "update_firewall_group_status"}
    THEN IF call.id \in DOMAIN firewall_groups_v2 THEN {}
         ELSE {"FirewallGroupNotFound"}
    ELSE IF call.op \in {"insert_rule", "remove_rule"}
    THEN (IF call.id \in DOMAIN firewall_policies_v2 THEN {}
          ELSE {"FirewallPolicyNotFound"})
         \cup (IF call.req.firewall_rule_id \in DOMAIN firewall_rules_v2
               THEN {} ELSE {"FirewallRuleNotFound"})
    ELSE {}

\* C34: a call, other than delete_firewall_group, that names a rule, a
\* policy or a group that is not there ends with the NotFound error of a row
\* it names that is not there, and changes no table.
C34_UnknownIdNotFound ==
    [][(last' # last /\ NotFoundsOf(last') # {})
       => (last'.result \in NotFoundsOf(last') /\ UNCHANGED tables)
    ]_vars

----------------------------------------------------------------------------
(* SpecRead: the listing of groups and the group of a port, on projects *)
(* whose default group may be there or not                               *)

\* self._get_collection(context, FirewallGroup, ...): the groups the context
\* may see that match the filters
_get_collection(db, context, filters) ==
    {_make_firewall_group_dict(db, db.fwg[g]) :
        g \in {h \in DOMAIN db.fwg :
                  /\ context.is_admin \/ db.fwg[h].tenant_id = context.tenant_id
                  /\ Has(filters, "tenant_id")
                        => db.fwg[h].tenant_id \in Range(filters.tenant_id)}}

\* the project get_firewall_groups runs the bootstrap for
_listing_tenant_id(context, filters) ==
    IF Has(filters, "tenant_id") /\ filters.tenant_id # <<>>
    THEN filters.tenant_id[1]
    ELSE context.tenant_id

\* get_firewall_groups with no bootstrap
get_firewall_groups_no_bootstrap(db, context, filters) ==
    Ok(db, [firewall_groups |-> _get_collection(db, context, filters)])

get_firewall_groups(db, context, filters) ==
    Let(IF context.tenant_id # None
        THEN _ensure_default_firewall_group(
                 db, _listing_tenant_id(context, filters))
        ELSE Ok(db, NoId), LAMBDA ensured :
    IF ensured.result # "ok" THEN Raise(db, ensured.result)
    ELSE Ok(ensured.db,
            [firewall_groups |-> _get_collection(ensured.db, context, filters)]))

\* the rules of a policy in the order of their positions
_get_policy_ordered_rules(db, policy_id) ==
    [i \in DOMAIN rule_associations(db, policy_id) |->
        _make_firewall_rule_dict(db.fwr[rule_associations(db, policy_id)[i]])]

_make_firewall_group_dict_with_rules(db, firewall_group_id) ==
    Let(get_firewall_group(db, firewall_group_id), LAMBDA fwg :
    IF fwg.result # "ok" THEN fwg
    ELSE Ok(db, [fwg |-> fwg.ret,
                 ingress_rule_list |->
                     IF fwg.ret.ingress_firewall_policy_id # NoId
                     THEN _get_policy_ordered_rules(
                              db, fwg.ret.ingress_firewall_policy_id)
                     ELSE <<>>,
                 egress_rule_list |->
                     IF fwg.ret.egress_firewall_policy_id # NoId
                     THEN _get_policy_ordered_rules(
                              db, fwg.ret.egress_firewall_policy_id)
                     ELSE <<>>]))

\* returns None when no group holds the port
get_firewall_group_for_port(db, port_id) ==
    LET fwg_port == {a \in db.fwgpa : a.port_id = port_id}
    IN  IF fwg_port = {} THEN Ok(db, NoRet)
        ELSE _make_firewall_group_dict_with_rules(
                 db, (CHOOSE a \in fwg_port : TRUE).firewall_group_id)

GetFirewallGroups(context, filters) ==
    Call("get_firewall_groups", NoId, [context |-> context, filters |-> filters],
         get_firewall_groups(DB, context, filters))

GetFirewallGroupForPort(port_id) ==
    Call("get_firewall_group_for_port", port_id, <<>>,
         get_firewall_group_for_port(DB, port_id))

\* an administrator's context that is of no project
NoProject == [is_admin |-> TRUE, tenant_id |-> None]

\* the listings: a user of project A, an administrator of project A, and
\* an administrator of no project, with no filter or a filter on a project
Listings ==
    {[context |-> User, filters |-> <<>>],
     [context |-> User, filters |-> [tenant_id |-> <<"A">>]],
     [context |-> Admin, filters |-> <<>>],
     [context |-> Admin, filters |-> [tenant_id |-> <<"B">>]],
     [context |-> NoProject, filters |-> <<>>],
     [context |-> NoProject, filters |-> [tenant_id |-> <<"B">>]]}

\* the requests of create_firewall_group: a group of project A on port 1,
\* with no policy or with policy 1, the ingress policy of the first default
\* group created, and a group of project B on port 2
ReadCreates ==
    {[GroupRequest("A", ingress, NoId) EXCEPT !.ports = <<1>>] :
        ingress \in {NoId, 1}}
    \cup {[GroupRequest("B", NoId, NoId) EXCEPT !.ports = <<2>>]}

ReadInit == TablesAre(EmptyDB) /\ calls = <<>> /\ last = NoCall

\* a bootstrap adds four rules: no more than MaxDefaultRules rules are made
ReadNext ==
    \/ \E fwg \in ReadCreates :
          /\ Cardinality(DOMAIN firewall_rules_v2) < MaxDefaultRules
          /\ CreateFirewallGroup(fwg)
    \/ \E l \in Listings :
          /\ Cardinality(DOMAIN firewall_rules_v2) < MaxDefaultRules
          /\ GetFirewallGroups(l.context, l.filters)
    \/ \E port_id \in PortIds : GetFirewallGroupForPort(port_id)
    \/ \E id \in DOMAIN firewall_groups_v2 : DeleteFirewallGroup(Admin, id)
    \/ \E id \in DOMAIN firewall_groups_v2 :
          UpdateFirewallGroup(Admin, id,
                              [status |-> PENDING_DELETE, name |-> "fwg"])

SpecRead == ReadInit /\ [][ReadNext]_vars

\* the groups the marker rows of a project name, once the step is taken
MarkedGroupsAfter(tenant_id) ==
    {m.firewall_group_id : m \in {n \in default_firewall_groups' :
                                     n.project_id = tenant_id}}
    \cap DOMAIN firewall_groups_v2'

\* the step is a successful listing, run for the project tenant_id
Listed(tenant_id) ==
    /\ last'.op = "get_firewall_groups" /\ last'.result = "ok"
    /\ _listing_tenant_id(last'.req.context, last'.req.filters) = tenant_id

\* the listing returned holds the group the project's marker row names
ListsDefault(tenant_id) ==
    /\ MarkedGroupsAfter(tenant_id) # {}
    /\ \A g \in MarkedGroupsAfter(tenant_id) :
          \E fwg \in last'.ret.firewall_groups :
              fwg.id = g /\ fwg.tenant_id = tenant_id

\* a successful create_firewall_group leaves the project of the group with
\* a default group
CreateBootstraps ==
    (last'.op = "create_firewall_group" /\ last'.result = "ok")
    => MarkedGroupsAfter(last'.req.tenant_id) # {}

PortGroup ==
    (CHOOSE a \in firewall_group_port_associations_v2 :
        a.port_id = last'.id).firewall_group_id

\* C33: a successful get_firewall_group_for_port of a port that a group
\* holds returns the group with the rule lists of its ingress and egress
\* policy in the order of the policy, the empty list for a policy the group
\* has not, and leaves the project of the group with a default group.
C33_ResolveBootstraps ==
    [][(/\ last'.op = "get_firewall_group_for_port" /\ last'.result = "ok"
        /\ \E a \in firewall_group_port_associations_v2 : a.port_id = last'.id)
       => /\ last'.ret.fwg.id = PortGroup
          /\ last'.ret.ingress_rule_list =
                 IF firewall_groups_v2[PortGroup].ingress_firewall_policy_id = NoId
                 THEN <<>>
                 ELSE [i \in DOMAIN ObservedRules(
                          firewall_groups_v2[PortGroup].ingress_firewall_policy_id) |->
                         _make_firewall_rule_dict(firewall_rules_v2[ObservedRules(
                             firewall_groups_v2[PortGroup].ingress_firewall_policy_id)[i]])]
          /\ MarkedGroupsAfter(firewall_groups_v2[PortGroup].tenant_id) # {}
    ]_vars

----------------------------------------------------------------------------
(* SpecConntrack: one ConntrackManager, from the with statement that   *)
(* enters it to the end of the block, and the calls it makes to the     *)
(* netfilter_conntrack library                                          *)

\* the operations run inside one with block
MaxOperations == 2

\* the attributes set_functions, TARGET and converters have a key for
ATTRIBUTES ==
    {"src", "dst", "ipversion", "protocol", "type", "code", "id", "sport", "dport"}

\* self.set_functions[attr][ipversion]
set_functions(attr, ipversion) ==
    IF attr \in {"src", "dst"}
    THEN IF ipversion = IP_VERSION_4 THEN "nfct_set_attr_u32"
         ELSE "nfct_set_attr_u64"
    ELSE IF attr \in {"ipversion", "protocol", "type", "code"}
    THEN "nfct_set_attr_u8"
    ELSE "nfct_set_attr_u16"

\* TARGET[attr][ipversion]
TARGET(attr, ipversion) ==
    IF attr = "src"
    THEN IF ipversion = IP_VERSION_4 THEN "ATTR_IPV4_SRC" ELSE "ATTR_IPV6_SRC"
    ELSE IF attr = "dst"
    THEN IF ipversion = IP_VERSION_4 THEN "ATTR_IPV4_DST" ELSE "ATTR_IPV6_DST"
    ELSE IF attr = "ipversion" THEN "ATTR_L3PROTO"
    ELSE IF attr = "protocol" THEN "ATTR_L4PROTO"
    ELSE IF attr = "code" THEN "ATTR_ICMP_CODE"
    ELSE IF attr = "type" THEN "ATTR_ICMP_TYPE"
    ELSE IF attr = "id" THEN "ATTR_ICMP_ID"
    ELSE IF attr = "sport" THEN "ATTR_PORT_SRC"
    ELSE "ATTR_PORT_DST"

\* the manager makes a call of the library: the call is added to the
\* calls made
nfct(self, call) == [self EXCEPT !.nfct = Append(@, call)]

\* result = nfct.nfct_query(self.conntrack_handler, query_type, query_data);
\* a result of NFCT_CB_FAILURE is logged and nothing else
_query(self, query_type, query_data) ==
    nfct(self, [fn |-> "nfct_query", on |-> self.conntrack_handler,
                arg |-> query_type, data |-> query_data])

_callback_register(self, message_type) ==
    nfct(self, [fn |-> "nfct_callback_register", on |-> self.conntrack_handler,
                arg |-> message_type, data |-> "callback"])

\* the socket family the manager was made with, or that of IPv4
_family(self) ==
    IF self.family_socket # None THEN self.family_socket ELSE "AF_INET"

list_entries(self) ==
    Ok(_query(_callback_register(self, "NFCT_T_ALL"),
              "NFCT_Q_DUMP", _family(self)),
       NoRet)

flush_entries(self) ==
    Ok(_query(self, "NFCT_Q_FLUSH", _family(self)), NoRet)

\* _set_attributes from the i-th item of the entry on. An entry is the
\* list of its keys in the order of entry.items(), with
\* entry.get('ipversion', 4). A key that set_functions has not raises
\* KeyError.
RECURSIVE _set_attributes_from(_, _, _, _)
_set_attributes_from(self, conntrack, entry, i) ==
    IF i > Len(entry.items) THEN Ok(self, NoRet)
    ELSE IF entry.items[i] \notin ATTRIBUTES THEN Raise(self, "KeyError")
    ELSE _set_attributes_from(
             nfct(self, [fn |-> set_functions(entry.items[i], entry.ipversion),
                         on |-> conntrack,
                         arg |-> TARGET(entry.items[i], entry.ipversion),
                         data |-> entry.items[i]]),
             conntrack, entry, i + 1)

_set_attributes(self, conntrack, entry) ==
    _set_attributes_from(self, conntrack, entry, 1)

\* the loop of delete_entries from the i-th entry on
RECURSIVE _delete_entries_from(_, _, _, _)
_delete_entries_from(self, conntrack, entries, i) ==
    IF i > Len(entries) THEN Ok(self, NoRet)
    ELSE Let(_set_attributes(self, conntrack, entries[i]), LAMBDA set :
         IF set.result # "ok" THEN set
         ELSE _delete_entries_from(
                  _query(set.db, "NFCT_Q_DESTROY", conntrack),
                  conntrack, entries, i + 1))

\* delete_entries with no finally clause
_destroy_never(self, conntrack) == self

\* the finally clause of delete_entries
_destroy(self, conntrack) ==
    nfct(self, [fn |-> "nfct_destroy", on |-> conntrack,
                arg |-> None, data |-> None])

\* conntrack is what nfct.nfct_new() returns, a filter or None
delete_entries(self, entries, conntrack) ==
    Let(_delete_entries_from(
            nfct(self, [fn |-> "nfct_new", on |-> None,
                        arg |-> None, data |-> None]),
            conntrack, entries, 1), LAMBDA loop :
    IF loop.result # "ok"
    THEN Raise(_destroy(loop.db, conntrack), "ConntrackOpenFailedExit")
    ELSE Ok(_destroy(loop.db, conntrack), NoRet))

\* conntrack_handler is what nfct.nfct_open() returns, a handler or None
__enter__(self, conntrack_handler) ==
    Let(nfct([self EXCEPT !.conntrack_handler = conntrack_handler],
             [fn |-> "nfct_open", on |-> None,
              arg |-> "CONNTRACK", data |-> "NFNL_SUBSYS_CTNETLINK"]),
        LAMBDA opened :
    IF conntrack_handler = None
    THEN Raise(opened, "ConntrackOpenFailedExit")
    ELSE Ok(opened, NoRet))

\* __exit__ that closes nothing
__exit___no_close(self) == self

__exit__(self) ==
    nfct(self, [fn |-> "nfct_close", on |-> self.conntrack_handler,
                arg |-> None, data |-> None])

\* ConntrackManager(family_socket)
ConntrackManager(family_socket) ==
    [family_socket |-> family_socket, conntrack_handler |-> None, nfct |-> <<>>]

\* the entries of the requests: the keys of the entry in the order of
\* entry.items(), and entry.get('ipversion', 4)
FAKE_TCP_ENTRY ==
    [items |-> <<"ipversion", "protocol", "sport", "dport", "src", "dst">>,
     ipversion |-> IP_VERSION_4]

\* an IPv6 entry, an entry with no ipversion key, and an entry with a key
\* that is not an attribute
EntryV6 == [items |-> <<"ipversion", "src">>, ipversion |-> IP_VERSION_6]
EntryBare == [items |-> <<"protocol">>, ipversion |-> IP_VERSION_4]
EntryZone == [items |-> <<"protocol", "zone">>, ipversion |-> IP_VERSION_4]

EntryLists ==
    {<<>>, <<FAKE_TCP_ENTRY>>, <<FAKE_TCP_ENTRY, EntryV6>>,
     <<EntryBare, EntryZone, FAKE_TCP_ENTRY>>}

\* the manager of the with statement
Manager == calls[1]

\* the with statement goes on: the manager is at pc with state self after
\* operation op of request req ended with outcome o
Manages(pc, op, req, o, operations) ==
    /\ calls' = <<[pc |-> pc, self |-> o.db, operations |-> operations]>>
    /\ last' = [op |-> op, id |-> NoId, req |-> req,
                result |-> o.result, ret |-> o.ret]
    /\ UNCHANGED tables

\* with ConntrackManager(family_socket) as conntrack: an exception of
\* __enter__ leaves the statement with no call of __exit__
Enter(family_socket, conntrack_handler) ==
    /\ Manager.pc = "new"
    /\ Let(__enter__(ConntrackManager(family_socket), conntrack_handler),
           LAMBDA o :
               Manages(IF o.result = "ok" THEN "entered" ELSE "failed",
                       "__enter__", [family_socket |-> family_socket], o, 0))

\* an operation of the block; an exception leaves the block
Operates(op, req, o) ==
    /\ Manager.pc = "entered"
    /\ Manager.operations < MaxOperations
    /\ Manages(IF o.result = "ok" THEN "entered" ELSE "raised",
               op, req, o, Manager.operations + 1)

ListEntries == Operates("list_entries", <<>>, list_entries(Manager.self))

FlushEntries == Operates("flush_entries", <<>>, flush_entries(Manager.self))

DeleteEntries(entries, conntrack) ==
    Operates("delete_entries", [entries |-> entries, conntrack |-> conntrack],
             delete_entries(Manager.self, entries, conntrack))

\* the block ends, or the exception of an operation leaves it
Exit ==
    /\ Manager.pc \in {"entered", "raised"}
    /\ Manages("closed", "__exit__", <<>>,
               [db |-> __exit__(Manager.self),
                result |-> IF Manager.pc = "raised" THEN last.result ELSE "ok",
                ret |-> NoRet],
               Manager.operations)

ConntrackInit ==
    /\ TablesAre(EmptyDB)
    /\ calls = <<[pc |-> "new", self |-> ConntrackManager(None), operations |-> 0]>>
    /\ last = NoCall

ConntrackNext ==
    \/ \E family_socket \in {None, "AF_INET6"}, conntrack_handler \in {None, "handler"} :
          Enter(family_socket, conntrack_handler)
    \/ ListEntries
    \/ FlushEntries
    \/ \E entries \in EntryLists, conntrack \in {None, "filter"} :
          DeleteEntries(entries, conntrack)
    \/ Exit

SpecConntrack == ConntrackInit /\ [][ConntrackNext]_vars

\* the calls of function fn among the calls
CallsOf(log, fn) == {i \in DOMAIN log : log[i].fn = fn}

\* the calls the step adds to the calls the manager has made
Added == SubSeq(Manager'.self.nfct, Len(Manager.self.nfct) + 1,
                Len(Manager'.self.nfct))

\* one handler is opened, and closed once by the end of the block and not
\* before; a handler that did not open is not closed
OpenedAndClosedOnce ==
    Let(Manager.self.nfct, LAMBDA log :
        /\ Cardinality(CallsOf(log, "nfct_open")) =
               IF Manager.pc = "new" THEN 0 ELSE 1
        /\ Manager.pc = "failed"
              => /\ last.result = "ConntrackOpenFailedExit"
                 /\ Len(log) = 1
        /\ Cardinality(CallsOf(log, "nfct_close")) =
               IF Manager.pc = "closed" THEN 1 ELSE 0
        /\ Manager.pc = "closed"
              => /\ log[Len(log)].fn = "nfct_close"
                 /\ log[Len(log)].on = Manager.self.conntrack_handler
                 /\ Manager.self.conntrack_handler # None)

\* list_entries registers one callback and then makes one query,
\* flush_entries makes one query, both on the handler
ListAndFlushQueries ==
    /\ (last'.op = "list_entries" /\ Manager'.operations # Manager.operations)
       => /\ Len(Added) = 2
          /\ Added[1].fn = "nfct_callback_register"
          /\ Added[2].fn = "nfct_query" /\ Added[2].arg = "NFCT_Q_DUMP"
          /\ \A i \in 1..2 : Added[i].on = Manager.self.conntrack_handler
    /\ (last'.op = "flush_entries" /\ Manager'.operations # Manager.operations)
       => /\ Len(Added) = 1
          /\ Added[1].fn = "nfct_query" /\ Added[1].arg = "NFCT_Q_FLUSH"
          /\ Added[1].on = Manager.self.conntrack_handler

\* C36: the with statement of a ConntrackManager calls nfct_open once; when
\* no handler comes back ConntrackOpenFailedExit is raised and nfct_close is
\* never called; else nfct_close is called once, on the handler, as the
\* last call, when the block is left, whatever list_entries (one
\* nfct_callback_register, then one nfct_query), flush_entries (one
\* nfct_query) and delete_entries ran in the block.
C36_HandlerClosedOnce == []OpenedAndClosedOnce /\ [][ListAndFlushQueries]_vars

\* a block that listed the entries and then failed to delete entries was
\* left with the handler closed
C36_Witness ==
    /\ Manager.pc = "closed"
    /\ last.result = "ConntrackOpenFailedExit"
    /\ CallsOf(Manager.self.nfct, "nfct_callback_register") # {}
    /\ CallsOf(Manager.self.nfct, "nfct_destroy") # {}

\* the index, in the calls of a delete_entries, of the query of the k-th
\* entry (the index of nfct_new for k = 0)
RECURSIVE QueryIndex(_, _)
QueryIndex(entries, k) ==
    IF k = 0 THEN 1
    ELSE QueryIndex(entries, k - 1) + Len(entries[k].items) + 1

\* the calls of the k-th entry: one call per key of the entry, in order,
\* on the filter, then one DESTROY query on the filter
EntryDeleted(entries, conntrack, k) ==
    /\ \A i \in 1..Len(entries[k].items) :
          Let(Added[QueryIndex(entries, k - 1) + i], LAMBDA call :
              /\ call.fn \in {"nfct_set_attr_u8", "nfct_set_attr_u16",
                              "nfct_set_attr_u32", "nfct_set_attr_u64"}
              /\ call.on = conntrack
              /\ call.data = entries[k].items[i])
    /\ Let(Added[QueryIndex(entries, k)], LAMBDA call :
           /\ call.fn = "nfct_query" /\ call.arg = "NFCT_Q_DESTROY"
           /\ call.data = conntrack)

\* the step is a call of delete_entries
Deletes ==
    /\ last'.op = "delete_entries"
    /\ Manager'.operations # Manager.operations

\* C37: delete_entries calls nfct_new once, first; then for each entry in
\* order one set function per key of the entry and one DESTROY query;
\* and nfct_destroy once, last, on what nfct_new returned, a filter or
\* None. When a call of the loop raises, no other entry is handled,
\* nfct_destroy is still the last call and ConntrackOpenFailedExit is
\* raised.
C37_FilterDestroyedOnce ==
    [][Deletes =>
         Let(last'.req, LAMBDA req :
             /\ Added[1].fn = "nfct_new"
             /\ Cardinality(CallsOf(Added, "nfct_new")) = 1
             /\ Added[Len(Added)].fn = "nfct_destroy"
             /\ Added[Len(Added)].on = req.conntrack
             /\ Cardinality(CallsOf(Added, "nfct_destroy")) = 1
             /\ IF \A k \in DOMAIN req.entries :
                       Range(req.entries[k].items) \subseteq ATTRIBUTES
                THEN /\ last'.result = "ok"
                     /\ Len(Added) = QueryIndex(req.entries, Len(req.entries)) + 1
                     /\ \A k \in DOMAIN req.entries :
                           EntryDeleted(req.entries, req.conntrack, k)
                ELSE /\ last'.result = "ConntrackOpenFailedExit"
                     /\ Manager'.pc = "raised"
                     /\ Cardinality(CallsOf(Added, "nfct_query"))
                            < Len(req.entries))
    ]_vars

\* the key of the second of three entries raised after the first entry
\* was deleted, and the filter was destroyed
C37_Witness ==
    /\ last.op = "delete_entries"
    /\ last.result = "ConntrackOpenFailedExit"
    /\ last.req.conntrack # None
    /\ Len(last.req.entries) = 3
    /\ Manager.pc = "raised"
    /\ Let(Manager.self.nfct, LAMBDA log :
           /\ log[Len(log)].fn = "nfct_destroy"
           /\ Cardinality({i \in CallsOf(log, "nfct_query") :
                              log[i].arg = "NFCT_Q_DESTROY"}) = 1)

====
